---- MODULE Spec2Model ----
(***************************************************************************)
(* Runtime decision and calibration control engine of the baby-cry        *)
(* monitor: the Decision Policy (monitor/decision.py), the Gating Engine   *)
(* (monitor/gating.py) and the Calibration Control Store                   *)
(* (monitor/calibration.py).                                               *)
(*                                                                         *)
(* Numbers.  Scores and score thresholds are levels 0..MaxScore, in units  *)
(* of 1/MaxScore.  cat_weight is a multiple of 1/WeightDen, so the margin  *)
(* test  baby - cat_weight*cat >= margin  is evaluated exactly as          *)
(* WeightDen*baby - w*cat >= WeightDen*margin.  Times are whole seconds on *)
(* the wall clock read by datetime.utcnow(), which the model lets stand    *)
(* still or advance between two reads.                                     *)
(***************************************************************************)
EXTENDS Integers, Sequences, FiniteSets, TLC

VARIABLES
    gate,        \* the GatingEngine object (its attributes, as a record)
    clock,       \* the value datetime.utcnow() last returned
    last_ready,  \* time of the latest evaluate that returned ready_for_alert
                 \* since the gate parameters last changed (None if none)
    call,        \* the operation invoked last, with its arguments
    ret,         \* what that operation returned (or the error it raised)
    file,        \* content of <artifact_dir>/calibration_control.json
    poller,      \* the TelegramStartPoller threads and the updates they are sent
    status,      \* content of <artifact_dir>/calibration_status.json
    monitor,     \* the processing loop of cli.main
    recipients,  \* content of the recipient store file
    notifier     \* the alert TelegramNotifier.send_alert is sending

vars == <<gate, clock, last_ready, call, ret, file, poller, status, monitor,
          recipients, notifier>>

----------------------------------------------------------------------------
(* Bounds of the model *)

MaxScore == 2
MaxWeight == 3
WeightDen == 2
MaxConfirm == 2
MaxCooldown == 2
MaxTime == 2

----------------------------------------------------------------------------
(* Python values *)

None == <<>>
Some(v) == <<v>>
IsNone(o) == o = <<>>
Val(o) == o[1]

Max(a, b) == IF a >= b THEN a ELSE b
Min(a, b) == IF a <= b THEN a ELSE b

Scores == 0..MaxScore
Weights == 0..MaxWeight

\* a count of all the entries, qualifying or not
SumOfAll(h) == Len(h)

\* sum(self._history): the number of True entries
RECURSIVE Sum(_)
Sum(h) == IF h = <<>> THEN 0 ELSE (IF Head(h) THEN 1 ELSE 0) + Sum(Tail(h))

\* deque.append on a deque built with maxlen: a full deque drops its leftmost
\* entry, a deque of maxlen 0 stays empty
DequeAppendKeepOldest(h, maxlen, v) ==
    IF Len(h) >= maxlen THEN h ELSE Append(h, v)

DequeAppend(h, maxlen, v) ==
    IF maxlen = 0 THEN <<>>
    ELSE IF Len(h) >= maxlen THEN Append(Tail(h), v)
    ELSE Append(h, v)

\* list(h)[-k:] : the last k entries (all of them when k = 0 or k >= len)
NegSliceOldest(l, k) ==
    IF k = 0 \/ k >= Len(l) THEN l ELSE SubSeq(l, 1, k)

NegSlice(l, k) ==
    IF k = 0 \/ k >= Len(l) THEN l ELSE SubSeq(l, Len(l) - k + 1, Len(l))

\* deque(iterable, maxlen): keeps the rightmost maxlen entries
DequeOf(l, maxlen) ==
    IF maxlen >= Len(l) THEN l ELSE SubSeq(l, Len(l) - maxlen + 1, Len(l))

\* TelegramStartPoller.__init__, before start(): the offset, the stop event,
\* the thread attribute and the watch registry.  Beside the attributes the
\* record holds the threads (how many loops start() created, and whether the
\* update loop and the watch loop are absent, running, exited or crashed),
\* the callers inside start(), the response being worked through and the
\* position in it; `received` and `handled` remember the update ids a
\* response held and those passed to _handle_update, `in_order` whether every
\* response so far held increasing ids from the offset on, `feed` names the
\* responses the Bot API may send.
IdlePoller ==
    [offset |-> 0, response |-> <<>>, next |-> 1, aborted |-> FALSE,
     in_order |-> TRUE, received |-> {}, handled |-> {},
     stop |-> FALSE, has_thread |-> FALSE, starting |-> {},
     update_loops |-> 0, watch_loops |-> 0,
     update |-> "absent", watch |-> "absent",
     watchers |-> <<>>, feed |-> "any", writing |-> None,
     snapshot |-> <<>>, now |-> 0, watches |-> 0]

\* the poller after one start(): both loops run
StartedPoller ==
    [IdlePoller EXCEPT !.has_thread = TRUE, !.update_loops = 1,
                       !.watch_loops = 1, !.update = "running",
                       !.watch = "running"]

\* the processing loop before its first window
IdleMonitor == [alive |-> TRUE, status_next_at |-> 0]

\* no recipient store file yet
NoRecipients == [kind |-> "absent"]

\* TelegramNotifier with no alert under way
IdleNotifier == [stage |-> "idle", sends |-> <<>>, todo |-> <<>>, texted |-> {}]

----------------------------------------------------------------------------
(* Decision Policy: decision.py *)

passes_verifier_tie_passes(result, baby_threshold, cat_weight, margin_threshold, cat_suppress_threshold) ==
    IF result.baby_score < baby_threshold THEN FALSE
    ELSE IF WeightDen * result.baby_score - cat_weight * result.cat_score
                < WeightDen * margin_threshold THEN FALSE
    ELSE LET cat_dominates == /\ result.cat_score >= cat_suppress_threshold
                              /\ result.baby_score < result.cat_score
         IN  ~cat_dominates

passes_verifier_with_thresholds(result, baby_threshold, cat_weight, margin_threshold, cat_suppress_threshold) ==
    IF result.baby_score < baby_threshold THEN FALSE
    ELSE IF WeightDen * result.baby_score - cat_weight * result.cat_score
                < WeightDen * margin_threshold THEN FALSE
    ELSE LET cat_dominates == /\ result.cat_score >= cat_suppress_threshold
                              /\ result.baby_score <= result.cat_score
         IN  ~cat_dominates

----------------------------------------------------------------------------
(* Gating Engine: gating.py *)

\* GatingEngine.__init__
GatingEngine(baby_threshold, cat_weight, margin_threshold, cat_suppress_threshold, confirm_n, confirm_m, cooldown_seconds, primary_threshold) ==
    [ primary_threshold      |-> primary_threshold,
      baby_threshold         |-> baby_threshold,
      cat_weight             |-> cat_weight,
      margin_threshold       |-> margin_threshold,
      cat_suppress_threshold |-> cat_suppress_threshold,
      confirm_n              |-> confirm_n,
      confirm_m              |-> confirm_m,
      cooldown_seconds       |-> cooldown_seconds,
      history                |-> <<>>,
      history_maxlen         |-> confirm_m,
      last_alert_at          |-> None ]

\* a single-window check that leaves out the margin
candidate_without_margin(g, primary_score, baby_score, cat_score) ==
    /\ primary_score >= g.primary_threshold
    /\ baby_score >= g.baby_threshold

candidate_of(g, primary_score, baby_score, cat_score) ==
    /\ primary_score >= g.primary_threshold
    /\ baby_score >= g.baby_threshold
    /\ WeightDen * baby_score - g.cat_weight * cat_score
          >= WeightDen * g.margin_threshold

suppressed_never(g, baby_score, cat_score) == FALSE

suppressed_by_cat_of(g, baby_score, cat_score) ==
    /\ cat_score >= g.cat_suppress_threshold
    /\ ~(baby_score > cat_score /\ baby_score >= g.baby_threshold)

cooldown_ready_early(g, now) ==
    \/ IsNone(g.last_alert_at)
    \/ now - Val(g.last_alert_at) >= g.cooldown_seconds - 1

cooldown_ready_of(g, now) ==
    \/ IsNone(g.last_alert_at)
    \/ now - Val(g.last_alert_at) >= g.cooldown_seconds

\* the value of self._last_alert_at when evaluate returns
stamp_always(g, ready_for_alert, now) == Some(now)

stamp_alert(g, ready_for_alert, now) ==
    IF ready_for_alert THEN Some(now) ELSE g.last_alert_at

\* GatingEngine.evaluate, with `now` the value utcnow() returns in it:
\* the engine afterwards and the GatingDecision returned
evaluate(g, primary_score, baby_score, cat_score, now) ==
    LET candidate == candidate_of(g, primary_score, baby_score, cat_score)
        suppressed_by_cat == suppressed_by_cat_of(g, baby_score, cat_score)
        history == DequeAppend(g.history, g.history_maxlen,
                               candidate /\ ~suppressed_by_cat)
        confirmed == Sum(history) >= g.confirm_n
        cooldown_ready == cooldown_ready_of(g, now)
        ready_for_alert == confirmed /\ ~suppressed_by_cat /\ cooldown_ready
    IN  [ gate |-> [g EXCEPT !.history = history,
                             !.last_alert_at = stamp_alert(g, ready_for_alert, now)],
          decision |-> [ candidate       |-> candidate,
                         confirmed       |-> confirmed,
                         suppressed_by_cat |-> suppressed_by_cat,
                         ready_for_alert |-> ready_for_alert ] ]

clamp_none(lo, v) == v

\* max(lo, int(v))
clamp_min(lo, v) == Max(lo, v)

\* the confirm_m branch of update_runtime
resize_reset(g, confirm_m) ==
    LET new_confirm_m == clamp_min(1, confirm_m)
    IN  IF new_confirm_m # g.confirm_m
        THEN [g EXCEPT !.history = <<>>,
                       !.history_maxlen = new_confirm_m,
                       !.confirm_m = new_confirm_m]
        ELSE g

\* a new confirm_m that leaves the deque as it is
resize_confirm_m_only(g, confirm_m) ==
    [g EXCEPT !.confirm_m = clamp_min(1, confirm_m)]

resize_history(g, confirm_m) ==
    LET new_confirm_m == clamp_min(1, confirm_m)
    IN  IF new_confirm_m # g.confirm_m
        THEN LET history_tail == NegSlice(g.history, new_confirm_m)
             IN  [g EXCEPT !.history = DequeOf(history_tail, new_confirm_m),
                           !.history_maxlen = new_confirm_m,
                           !.confirm_m = new_confirm_m]
        ELSE g

\* GatingEngine.update_runtime; an argument left out is None
update_runtime(g, primary_threshold, confirm_n, confirm_m, cooldown_seconds) ==
    LET g1 == IF IsNone(primary_threshold) THEN g
              ELSE [g EXCEPT !.primary_threshold = Val(primary_threshold)]
        g2 == IF IsNone(confirm_n) THEN g1
              ELSE [g1 EXCEPT !.confirm_n = clamp_min(1, Val(confirm_n))]
        g3 == IF IsNone(confirm_m) THEN g2
              ELSE resize_history(g2, Val(confirm_m))
        g4 == IF IsNone(cooldown_seconds) THEN g3
              ELSE [g3 EXCEPT !.cooldown_seconds =
                                  clamp_min(0, Val(cooldown_seconds))]
    IN  g4

\* the parameters of the gate
Params(g) == <<g.primary_threshold, g.baby_threshold, g.cat_weight,
               g.margin_threshold, g.cat_suppress_threshold, g.confirm_n,
               g.confirm_m, g.cooldown_seconds>>

ConfirmArgs == -1..MaxConfirm
CooldownArgs == -1..MaxCooldown

NoArgs == [primary_threshold |-> None, confirm_n |-> None, confirm_m |-> None,
           cooldown_seconds |-> None]

\* the keyword arguments of one update_runtime call
UpdateArgs ==
    {[NoArgs EXCEPT !.primary_threshold = Some(v)] : v \in {1, MaxScore}}
    \cup {[NoArgs EXCEPT !.confirm_n = Some(v)] : v \in ConfirmArgs}
    \cup {[NoArgs EXCEPT !.confirm_m = Some(v)] : v \in ConfirmArgs}
    \cup {[NoArgs EXCEPT !.cooldown_seconds = Some(v)] : v \in CooldownArgs}

\* the threshold sets the engine is constructed with (MonitorConfig): a high
\* suppression threshold with cat_weight 1.0, and a low one with cat_weight
\* 1/WeightDen
GateThresholds ==
    { [baby_threshold |-> 1, cat_weight |-> WeightDen, margin_threshold |-> 1,
       cat_suppress_threshold |-> MaxScore],
      [baby_threshold |-> 1, cat_weight |-> 1, margin_threshold |-> 0,
       cat_suppress_threshold |-> 1] }

GateInit ==
    /\ \E th \in GateThresholds, n \in 0..MaxConfirm, m \in 0..MaxConfirm,
          cd \in 0..MaxCooldown :
          gate = GatingEngine(th.baby_threshold, th.cat_weight,
                              th.margin_threshold, th.cat_suppress_threshold,
                              n, m, cd, 1)
    /\ clock = 0
    /\ last_ready = None
    /\ poller = IdlePoller
    /\ status = [kind |-> "absent"]
    /\ monitor = IdleMonitor
    /\ recipients = NoRecipients
    /\ notifier = IdleNotifier
    /\ call = [op |-> "init"]
    /\ ret = [op |-> "init"]
    /\ file = [kind |-> "absent"]

\* time passes on the wall clock
Tick ==
    /\ clock < MaxTime
    /\ clock' = clock + 1
    /\ UNCHANGED <<recipients, notifier, gate, last_ready, call, ret, file, poller, status, monitor>>

\* one processed window: service.evaluate_decision(result), in which
\* utcnow() returns the clock's value
Evaluate ==
    \E p \in Scores, b \in Scores, c \in Scores :
        /\ LET r == evaluate(gate, p, b, c, clock)
           IN  /\ gate' = r.gate
               /\ last_ready' = IF r.decision.ready_for_alert THEN Some(clock)
                                ELSE last_ready
               /\ call' = [op |-> "evaluate"]
               /\ ret' = r.decision
        /\ UNCHANGED <<recipients, notifier, clock, file, poller, status, monitor>>

\* a hot swap of one runtime parameter (a call that passes several of them
\* does what the calls passing them one by one do, in the order of the code)
UpdateRuntime ==
    \E arg \in UpdateArgs :
        /\ gate' = update_runtime(gate, arg.primary_threshold, arg.confirm_n,
                                  arg.confirm_m, arg.cooldown_seconds)
        /\ last_ready' = IF Params(gate') = Params(gate) THEN last_ready ELSE None
        /\ call' = [op |-> "update_runtime", arg |-> arg]
        /\ ret' = [op |-> "update_runtime"]
        /\ UNCHANGED <<recipients, notifier, clock, file, poller, status, monitor>>

GateNext == Tick \/ Evaluate \/ UpdateRuntime

SpecGate == GateInit /\ [][GateNext]_vars

----------------------------------------------------------------------------
(* Decision Policy as a specification: the inputs of one call are drawn in
   the initial state, the action applies the function *)

PolicyCalls ==
    [ op : {"passes"},
      result : [primary_score : Scores, baby_score : Scores, cat_score : Scores],
      baby_threshold : Scores,
      cat_weight : Weights,
      margin_threshold : Scores,
      cat_suppress_threshold : Scores ]

IdleGate == GatingEngine(1, WeightDen, 1, MaxScore, 1, 1, 0, 1)

PolicyInit ==
    /\ call \in PolicyCalls
    /\ ret = [op |-> "pending"]
    /\ gate = IdleGate
    /\ clock = 0
    /\ last_ready = None
    /\ poller = IdlePoller
    /\ status = [kind |-> "absent"]
    /\ monitor = IdleMonitor
    /\ recipients = NoRecipients
    /\ notifier = IdleNotifier
    /\ file = [kind |-> "absent"]

Passes ==
    /\ call.op = "passes"
    /\ ret.op = "pending"
    /\ ret' = [op |-> "passes",
               value |-> passes_verifier_with_thresholds(
                             call.result, call.baby_threshold, call.cat_weight,
                             call.margin_threshold, call.cat_suppress_threshold)]
    /\ UNCHANGED <<recipients, notifier, gate, clock, last_ready, call, file, poller, status, monitor>>

PolicyNext == Passes

SpecPolicy == PolicyInit /\ [][PolicyNext]_vars

----------------------------------------------------------------------------
(* Python strings and numbers, as calibration.py converts them.

   A word is a text that is no decimal literal: `core` names its characters
   with the case folded, `case` says how its letters are written ("none" when
   it has no letter) and `pad` whether white space surrounds it.  A numeral is
   a decimal literal of `tenths` tenths, written with a decimal point (`dot`)
   or without.  A float is a number of tenths, nan or inf. *)

Word(core, case, pad) == [k |-> "word", core |-> core, case |-> case, pad |-> pad]
Numeral(tenths, dot, pad) == [k |-> "num", tenths |-> tenths, dot |-> dot, pad |-> pad]

\* str.strip()
Strip(t) == [t EXCEPT !.pad = FALSE]

\* str.lower()
Lower(t) ==
    IF t.k = "word" /\ t.case # "none" THEN [t EXCEPT !.case = "lower"] ELSE t

\* str.upper()
Upper(t) ==
    IF t.k = "word" /\ t.case # "none" THEN [t EXCEPT !.case = "upper"] ELSE t

PyInt(n) == [k |-> "int", n |-> n]
PyFloat(tenths) == [k |-> "float", tenths |-> tenths]
PyNaN == [k |-> "nan"]
PyInf == [k |-> "inf"]

\* the outcome of a call: a value, or the exception raised
Ok(v) == [ok |-> TRUE, v |-> v]
Err(e) == [ok |-> FALSE, error |-> e]

\* int(text): a literal without a decimal point, white space ignored
IntOfText(t) ==
    IF t.k = "num" /\ ~t.dot THEN Ok(t.tenths \div 10) ELSE Err("ValueError")

\* float(text): a decimal literal, "nan", "inf" or "infinity" in any case
FloatOfText(t) ==
    IF t.k = "num" THEN Ok(PyFloat(t.tenths))
    ELSE IF t.core = "nan" THEN Ok(PyNaN)
    ELSE IF t.core \in {"inf", "infinity"} THEN Ok(PyInf)
    ELSE Err("ValueError")

\* int(x) of a float: truncation towards zero
Trunc(tenths) == IF tenths >= 0 THEN tenths \div 10 ELSE -((-tenths) \div 10)

\* str(x) of a number
StrOfNum(x) ==
    CASE x.k = "int" -> Numeral(10 * x.n, FALSE, FALSE)
      [] x.k = "float" -> Numeral(x.tenths, TRUE, FALSE)
      [] x.k = "nan" -> Word("nan", "lower", FALSE)
      [] x.k = "inf" -> Word("inf", "lower", FALSE)

----------------------------------------------------------------------------
(* JSON documents, as json.loads returns them *)

JNull == [j |-> "null"]
JBool(b) == [j |-> "bool", b |-> b]
JNum(x) == [j |-> "num", num |-> x]
JStr(t) == [j |-> "str", text |-> t]
JList == [j |-> "list"]
JDict(items) == [j |-> "dict", items |-> items]
\* a key the object does not have
Missing == [j |-> "missing"]

\* the four keys load_control reads of the top-level object (any other key,
\* updated_at among them, is never read)
JObject(active, phase, interval_seconds, overrides) ==
    [j |-> "object", active |-> active, phase |-> phase,
     interval_seconds |-> interval_seconds, overrides |-> overrides]

\* payload.get(key, default)
Get(v, default) == IF v.j = "missing" THEN default ELSE v

\* str(x)
StrOf(v) ==
    CASE v.j = "str" -> v.text
      [] v.j = "num" -> StrOfNum(v.num)
      [] v.j = "null" -> Word("none", "mixed", FALSE)
      [] v.j = "bool" -> Word(IF v.b THEN "true" ELSE "false", "mixed", FALSE)
      [] v.j = "list" -> Word("[]", "none", FALSE)
      [] v.j = "dict" -> Word("{}", "none", FALSE)

\* bool(x)
Truthy(v) ==
    CASE v.j = "null" -> FALSE
      [] v.j = "bool" -> v.b
      [] v.j = "num" -> (CASE v.num.k = "int" -> v.num.n # 0
                           [] v.num.k = "float" -> v.num.tenths # 0
                           [] OTHER -> TRUE)
      [] v.j = "str" -> TRUE
      [] v.j = "list" -> FALSE
      [] v.j = "dict" -> v.items # <<>>

\* Python dicts with string keys
EmptyDict == [key \in {} |-> 0]
DictSet(d, key, v) == [x \in DOMAIN d \cup {key} |-> IF x = key THEN v ELSE d[x]]

----------------------------------------------------------------------------
(* Calibration Control Store: calibration.py *)

DEFAULT_CALIBRATION_INTERVAL_SECONDS == 15
MinInterval == 2
MaxInterval == 600

PHASE_PARAMETER_SPECS ==
    [ phase1 |-> [ PRIMARY_CRY_THRESHOLD |-> "float", CONFIRM_N |-> "int",
                   CONFIRM_M |-> "int", ALERT_COOLDOWN_SECONDS |-> "int" ],
      phase2 |-> [ CRY_THRESHOLD |-> "float", CAT_THRESHOLD |-> "float",
                   CAT_WEIGHT |-> "float", MARGIN_THRESHOLD |-> "float" ] ]

\* the string literals of the table: phase names are written in lower case,
\* parameter names in upper case
PhaseName(core) == Word(core, "lower", FALSE)
KeyName(core) == Word(core, "upper", FALSE)

\* phase in PHASE_PARAMETER_SPECS
IsPhase(t) == \E core \in DOMAIN PHASE_PARAMETER_SPECS : t = PhaseName(core)

\* PHASE_PARAMETER_SPECS.get(phase, {})
SpecsOf(phase) ==
    IF IsPhase(phase) THEN PHASE_PARAMETER_SPECS[phase.core] ELSE EmptyDict

\* specs.get(lookup): the expected type, or None
ExpectedType(specs, lookup) ==
    IF \E core \in DOMAIN specs : lookup = KeyName(core)
    THEN Some(specs[lookup.core]) ELSE None

CalibrationControl(active, phase, interval_seconds, overrides) ==
    [active |-> active, phase |-> phase, interval_seconds |-> interval_seconds,
     overrides |-> overrides]

default_control ==
    CalibrationControl(FALSE, PhaseName("phase1"),
                       DEFAULT_CALIBRATION_INTERVAL_SECONDS, EmptyDict)

to_interval_unclamped(value, default) ==
    CASE value.j = "null" -> Ok(default)
      [] value.j = "bool" -> Ok(IF value.b THEN 1 ELSE 0)
      [] value.j = "num" ->
           (CASE value.num.k = "int" -> Ok(value.num.n)
              [] value.num.k = "float" -> Ok(Trunc(value.num.tenths))
              [] value.num.k = "nan" -> Ok(default)
              [] value.num.k = "inf" -> Err("OverflowError"))
      [] value.j = "str" ->
           (IF IntOfText(value.text).ok THEN Ok(IntOfText(value.text).v)
            ELSE Ok(default))
      [] OTHER -> Ok(default)

\* _to_interval: None gives the default, a value int() rejects with TypeError
\* or ValueError gives the default, any other value is clamped; int(inf)
\* raises OverflowError, which is not caught
to_interval(value, default) ==
    LET clamp(i) == Ok(Max(MinInterval, Min(i, MaxInterval)))
    IN  CASE value.j = "null" -> Ok(default)
          [] value.j = "bool" -> clamp(IF value.b THEN 1 ELSE 0)
          [] value.j = "num" ->
               (CASE value.num.k = "int" -> clamp(value.num.n)
                  [] value.num.k = "float" -> clamp(Trunc(value.num.tenths))
                  [] value.num.k = "nan" -> Ok(default)
                  [] value.num.k = "inf" -> Err("OverflowError"))
          [] value.j = "str" ->
               (IF IntOfText(value.text).ok
                THEN clamp(IntOfText(value.text).v) ELSE Ok(default))
          [] OTHER -> Ok(default)

\* _parse_typed_value
parse_typed_value(raw_value, expected_type) ==
    LET text == Strip(raw_value)
    IN  IF expected_type = "int"
        THEN LET value == IntOfText(text)
             IN  IF ~value.ok THEN Err("ValueError")
                 ELSE IF value.v < 0 THEN Err("ValueError")
                 ELSE Ok(PyInt(value.v))
        ELSE FloatOfText(text)

\* the loop of _normalize_overrides over raw.items(), in the order of the
\* document
RECURSIVE normalize_items(_, _, _)
normalize_items(specs, items, normalized) ==
    IF items = <<>> THEN normalized
    ELSE LET item == Head(items)
             lookup == Upper(Strip(StrOf(item.key)))
             expected == ExpectedType(specs, lookup)
             parsed == parse_typed_value(StrOf(item.value), Val(expected))
         IN  IF IsNone(expected)
             THEN normalize_items(specs, Tail(items), normalized)
             ELSE IF ~parsed.ok
             THEN normalize_items(specs, Tail(items), normalized)
             ELSE normalize_items(specs, Tail(items),
                                  DictSet(normalized, lookup.core, parsed.v))

\* _normalize_overrides
normalize_overrides(phase, raw) ==
    IF raw.j # "dict" THEN EmptyDict
    ELSE normalize_items(SpecsOf(phase), raw.items, EmptyDict)

\* the control file
NoControlFile == [kind |-> "absent"]
NotJson == [kind |-> "garbage"]
JsonFile(doc) == [kind |-> "json", doc |-> doc]

\* load_control: the control returned, or the exception raised
load_control(f) ==
    IF f.kind = "absent" THEN Ok(default_control)
    ELSE IF f.kind = "garbage" THEN Ok(default_control)
    ELSE LET payload == f.doc
         IN  IF payload.j # "object" THEN Err("AttributeError")
             ELSE LET named == Lower(Strip(StrOf(Get(payload.phase,
                                                     JStr(PhaseName("phase1"))))))
                      phase == IF ~IsPhase(named) THEN PhaseName("phase1")
                               ELSE named
                      interval == to_interval(
                                      Get(payload.interval_seconds, JNull),
                                      DEFAULT_CALIBRATION_INTERVAL_SECONDS)
                      overrides == normalize_overrides(
                                       phase, Get(payload.overrides, JNull))
                      active == Truthy(Get(payload.active, JBool(FALSE)))
                  IN  IF ~interval.ok THEN Err(interval.error)
                      ELSE Ok(CalibrationControl(active, phase, interval.v,
                                                 overrides))

\* the items of a dict, one after the other
RECURSIVE ItemsOf(_)
ItemsOf(d) ==
    IF DOMAIN d = {} THEN <<>>
    ELSE LET key == CHOOSE x \in DOMAIN d : TRUE
             rest == [x \in DOMAIN d \ {key} |-> d[x]]
         IN  <<[key |-> JStr(KeyName(key)), value |-> JNum(d[key])]>>
             \o ItemsOf(rest)

save_control_no_overrides(control) ==
    JsonFile(JObject(JBool(control.active), JStr(control.phase),
                     JNum(PyInt(control.interval_seconds)), JDict(<<>>)))

\* save_control: the content written (updated_at is not modelled)
save_control(control) ==
    JsonFile(JObject(JBool(control.active), JStr(control.phase),
                     JNum(PyInt(control.interval_seconds)),
                     JDict(ItemsOf(control.overrides))))

start_calibration_raw_phase(f, phase, interval_seconds) ==
    LET interval == to_interval(interval_seconds,
                                DEFAULT_CALIBRATION_INTERVAL_SECONDS)
        control == CalibrationControl(TRUE, phase, interval.v, EmptyDict)
    IN  IF ~IsPhase(phase)
        THEN [ok |-> FALSE, error |-> "InvalidPhase", file |-> f]
        ELSE [ok |-> TRUE, control |-> control, file |-> save_control(control)]

\* start_calibration: what is returned or raised, and the file afterwards
start_calibration(f, phase, interval_seconds) ==
    LET normalized_phase == Lower(Strip(phase))
        interval == to_interval(interval_seconds,
                                DEFAULT_CALIBRATION_INTERVAL_SECONDS)
        control == CalibrationControl(TRUE, normalized_phase, interval.v,
                                      EmptyDict)
    IN  IF ~IsPhase(normalized_phase)
        THEN [ok |-> FALSE, error |-> "InvalidPhase", file |-> f]
        ELSE [ok |-> TRUE, control |-> control, file |-> save_control(control)]

\* stop_calibration
stop_calibration(f) ==
    LET previous == load_control(f)
        current == CalibrationControl(FALSE, previous.v.phase,
                                      previous.v.interval_seconds, EmptyDict)
    IN  IF ~previous.ok
        THEN [ok |-> FALSE, error |-> previous.error, file |-> f]
        ELSE [ok |-> TRUE, previous |-> previous.v, current |-> current,
              file |-> save_control(current)]

\* set_calibration_interval
set_calibration_interval(f, interval_seconds) ==
    LET current == load_control(f)
        interval == to_interval(interval_seconds,
                                DEFAULT_CALIBRATION_INTERVAL_SECONDS)
        updated == CalibrationControl(current.v.active, current.v.phase,
                                      interval.v, current.v.overrides)
    IN  IF ~current.ok
        THEN [ok |-> FALSE, error |-> current.error, file |-> f]
        ELSE [ok |-> TRUE, control |-> updated, file |-> save_control(updated)]

set_override_any_key(f, parameter, raw_value) ==
    LET current == load_control(f)
        key == Upper(Strip(parameter))
        value == parse_typed_value(raw_value, "float")
        updated == CalibrationControl(current.v.active, current.v.phase,
                       current.v.interval_seconds,
                       DictSet(current.v.overrides, key.core, value.v))
    IN  IF ~current.ok
        THEN [ok |-> FALSE, error |-> current.error, file |-> f]
        ELSE IF ~current.v.active
        THEN [ok |-> FALSE, error |-> "CalibrationInactive", file |-> f]
        ELSE IF ~value.ok
        THEN [ok |-> FALSE, error |-> "InvalidValue", file |-> f]
        ELSE [ok |-> TRUE, control |-> updated, key |-> key, value |-> value.v,
              file |-> save_control(updated)]

set_override_replacing(f, parameter, raw_value) ==
    LET current == load_control(f)
        key == Upper(Strip(parameter))
        expected_type == ExpectedType(SpecsOf(current.v.phase), key)
        value == parse_typed_value(raw_value, Val(expected_type))
        updated == CalibrationControl(current.v.active, current.v.phase,
                       current.v.interval_seconds,
                       DictSet(EmptyDict, key.core, value.v))
    IN  IF ~current.ok
        THEN [ok |-> FALSE, error |-> current.error, file |-> f]
        ELSE IF ~current.v.active
        THEN [ok |-> FALSE, error |-> "CalibrationInactive", file |-> f]
        ELSE IF IsNone(expected_type)
        THEN [ok |-> FALSE, error |-> "UnknownParameter", file |-> f]
        ELSE IF ~value.ok
        THEN [ok |-> FALSE, error |-> "InvalidValue", file |-> f]
        ELSE [ok |-> TRUE, control |-> updated, key |-> key, value |-> value.v,
              file |-> save_control(updated)]

\* set_override: the three ValueErrors are told apart by their message
\* ("calibration is not active", "parameter not allowed ...", and the one
\* _parse_typed_value raises)
set_override(f, parameter, raw_value) ==
    LET current == load_control(f)
        key == Upper(Strip(parameter))
        expected_type == ExpectedType(SpecsOf(current.v.phase), key)
        value == parse_typed_value(raw_value, Val(expected_type))
        updated == CalibrationControl(current.v.active, current.v.phase,
                       current.v.interval_seconds,
                       DictSet(current.v.overrides, key.core, value.v))
    IN  IF ~current.ok
        THEN [ok |-> FALSE, error |-> current.error, file |-> f]
        ELSE IF ~current.v.active
        THEN [ok |-> FALSE, error |-> "CalibrationInactive", file |-> f]
        ELSE IF IsNone(expected_type)
        THEN [ok |-> FALSE, error |-> "UnknownParameter", file |-> f]
        ELSE IF ~value.ok
        THEN [ok |-> FALSE, error |-> "InvalidValue", file |-> f]
        ELSE [ok |-> TRUE, control |-> updated, key |-> key, value |-> value.v,
              file |-> save_control(updated)]

\* sorted(): the parameter names in the order of their characters
SortedKeys ==
    << "ALERT_COOLDOWN_SECONDS", "CAT_THRESHOLD", "CAT_WEIGHT", "CONFIRM_M",
       "CONFIRM_N", "CRY_THRESHOLD", "MARGIN_THRESHOLD",
       "PRIMARY_CRY_THRESHOLD" >>

\* a line of text that is a command followed by two words, and any other line
CommandLine(cmd, first, second) == [cmd |-> cmd, args |-> <<first, second>>]
OtherLine(about) == [cmd |-> "", about |-> about]

build_stop_summary_start_only(previous) ==
    << OtherLine("Calibration stopped"), OtherLine("Final command state:"),
       CommandLine("/cal_start", previous.phase,
                   StrOfNum(PyInt(previous.interval_seconds))) >>

\* build_stop_summary: the lines of the text
build_stop_summary(previous) ==
    LET IsSet(key) == key \in DOMAIN previous.overrides
        keys == SelectSeq(SortedKeys, IsSet)
    IN  << OtherLine("Calibration stopped"), OtherLine("Final command state:"),
           CommandLine("/cal_start", previous.phase,
                       StrOfNum(PyInt(previous.interval_seconds))) >>
        \o [i \in 1..Len(keys) |->
              CommandLine("/cal_set", KeyName(keys[i]),
                          StrOfNum(previous.overrides[keys[i]]))]
        \o (IF DOMAIN previous.overrides = {}
            THEN <<OtherLine("(no parameter overrides were applied)")>>
            ELSE <<>>)

----------------------------------------------------------------------------
(* The store as a specification: the control file starts with any content,
   the operations are called in any order *)

PhaseTexts ==
    { PhaseName("phase1"), PhaseName("phase2"), Word("phase2", "upper", TRUE),
      Word("phase1", "mixed", FALSE), PhaseName("phase3") }

IntervalArgs ==
    { JNull, JNum(PyInt(MinInterval - 3)), JNum(PyInt(25)),
      JNum(PyInt(MaxInterval + 1)) }

ActiveFields == { Missing, JBool(TRUE), JBool(FALSE), JStr(Word("no", "lower", FALSE)) }

PhaseFields ==
    { Missing, JNull, JStr(PhaseName("phase2")),
      JStr(Word("phase2", "upper", TRUE)), JStr(PhaseName("phase3")) }

IntervalFields ==
    { Missing, JNum(PyInt(1)), JNum(PyInt(25)), JNum(PyInt(MaxInterval + 1)),
      JNum(PyFloat(255)), JNum(PyNaN), JNum(PyInf),
      JStr(Numeral(120, FALSE, TRUE)), JStr(Numeral(15, TRUE, FALSE)),
      JStr(Word("soon", "lower", FALSE)), JList }

Item(key, value) == [key |-> key, value |-> value]

OverridesFields ==
    { Missing, JList, JDict(<<>>),
      JDict(<<Item(JStr(KeyName("CAT_WEIGHT")), JNum(PyFloat(14)))>>),
      JDict(<<Item(JStr(Word("CAT_WEIGHT", "lower", TRUE)),
                   JStr(Numeral(14, TRUE, FALSE)))>>),
      JDict(<<Item(JStr(KeyName("CONFIRM_N")), JNum(PyInt(3))),
              Item(JStr(KeyName("CAT_WEIGHT")), JNum(PyInt(2)))>>),
      JDict(<<Item(JStr(KeyName("CONFIRM_N")), JNum(PyFloat(30))),
              Item(JStr(KeyName("CONFIRM_M")), JNum(PyInt(-1))),
              Item(JStr(KeyName("VOLUME")), JNum(PyInt(1)))>>),
      JDict(<<Item(JStr(KeyName("CONFIRM_N")), JNum(PyInt(2))),
              Item(JStr(Word("CONFIRM_N", "lower", FALSE)), JNum(PyInt(3)))>>) }

ControlFiles ==
    { NoControlFile, NotJson, JsonFile(JList), JsonFile(JNull),
      JsonFile(JNum(PyInt(1))), JsonFile(JStr(PhaseName("phase1"))) }
    \cup { JsonFile(JObject(a, p, i, o)) :
             a \in ActiveFields, p \in PhaseFields, i \in IntervalFields,
             o \in OverridesFields }

StoreInit ==
    /\ file \in ControlFiles
    /\ call = [op |-> "init"]
    /\ ret = [op |-> "init"]
    /\ gate = IdleGate
    /\ clock = 0
    /\ last_ready = None
    /\ poller = IdlePoller
    /\ status = [kind |-> "absent"]
    /\ monitor = IdleMonitor
    /\ recipients = NoRecipients
    /\ notifier = IdleNotifier

Load ==
    /\ call' = [op |-> "load"]
    /\ ret' = [op |-> "load", out |-> load_control(file)]
    /\ UNCHANGED <<recipients, notifier, file, gate, clock, last_ready, poller, status, monitor>>

Start ==
    \E phase \in PhaseTexts, interval \in IntervalArgs :
        LET r == start_calibration(file, phase, interval)
        IN  /\ call' = [op |-> "start", phase |-> phase, interval |-> interval]
            /\ ret' = [op |-> "start", out |-> r]
            /\ file' = r.file
            /\ UNCHANGED <<recipients, notifier, gate, clock, last_ready, poller, status, monitor>>

Stop ==
    LET r == stop_calibration(file)
    IN  /\ call' = [op |-> "stop"]
        /\ ret' = [op |-> "stop", out |-> r]
        /\ file' = r.file
        /\ UNCHANGED <<recipients, notifier, gate, clock, last_ready, poller, status, monitor>>

ParameterTexts ==
    { KeyName("CAT_WEIGHT"), Word("CAT_WEIGHT", "lower", TRUE),
      KeyName("CONFIRM_N"), KeyName("PRIMARY_CRY_THRESHOLD"),
      KeyName("VOLUME") }

RawValueTexts ==
    { Numeral(14, TRUE, FALSE), Numeral(30, FALSE, TRUE),
      Numeral(-10, FALSE, FALSE),
      Word("abc", "lower", FALSE), Word("nan", "mixed", FALSE) }

SetOverride ==
    \E parameter \in ParameterTexts, raw_value \in RawValueTexts :
        LET r == set_override(file, parameter, raw_value)
        IN  /\ call' = [op |-> "set_override", parameter |-> parameter,
                        raw_value |-> raw_value]
            /\ ret' = [op |-> "set_override", out |-> r]
            /\ file' = r.file
            /\ UNCHANGED <<recipients, notifier, gate, clock, last_ready, poller, status, monitor>>

SetInterval ==
    \E interval \in IntervalArgs \ {JNull} :
        LET r == set_calibration_interval(file, interval)
        IN  /\ call' = [op |-> "set_interval", interval |-> interval]
            /\ ret' = [op |-> "set_interval", out |-> r]
            /\ file' = r.file
            /\ UNCHANGED <<recipients, notifier, gate, clock, last_ready, poller, status, monitor>>

StoreNext == Load \/ Start \/ Stop \/ SetOverride \/ SetInterval

SpecStore == StoreInit /\ [][StoreNext]_vars

----------------------------------------------------------------------------
(* Remote commands: telegram_poller.py and the callbacks of api.py *)

MaxUpdateId == 2
MaxBatch == 2

\* int(x)
IntOf(value) ==
    CASE value.j = "null" -> Err("TypeError")
      [] value.j = "bool" -> Ok(IF value.b THEN 1 ELSE 0)
      [] value.j = "num" ->
           (CASE value.num.k = "int" -> Ok(value.num.n)
              [] value.num.k = "float" -> Ok(Trunc(value.num.tenths))
              [] value.num.k = "nan" -> Err("ValueError")
              [] value.num.k = "inf" -> Err("OverflowError"))
      [] value.j = "str" -> IntOfText(value.text)
      [] OTHER -> Err("TypeError")

\* _handle_cal_start with api._calibration_start: the file afterwards
handle_cal_start(f, args) ==
    LET phase == Lower(Strip(args[1]))
        interval == IntOfText(args[2])
    IN  IF ~interval.ok THEN f
        ELSE start_calibration(f, phase, JNum(PyInt(interval.v))).file

\* _handle_cal_set with api._calibration_set: the file afterwards
handle_cal_set(f, args) == set_override(f, args[1], args[2]).file

\* _handle_update on a message holding one line of text: the file afterwards
handle_update(f, line) ==
    IF line.cmd = "/cal_start" THEN handle_cal_start(f, line.args)
    ELSE IF line.cmd = "/cal_set" THEN handle_cal_set(f, line.args)
    ELSE IF line.cmd = "/cal_stop" THEN stop_calibration(f).file
    ELSE f

\* the lines of a text sent as messages, one after the other
RECURSIVE Replay(_, _)
Replay(f, lines) ==
    IF lines = <<>> THEN f
    ELSE Replay(handle_update(f, Head(lines)), Tail(lines))

offset_after_last(offset, update_id) == update_id + 1

\* self._offset = max(self._offset, int(update.get("update_id", 0)) + 1)
offset_after(offset, update_id) == Max(offset, update_id + 1)

\* the update_id field of an update: an integer, absent, or null
UpdateIds ==
    { Missing, JNull } \cup { JNum(PyInt(n)) : n \in 0..MaxUpdateId }

\* payload.get("result", []): any updates in any order
Responses ==
    UNION { [1..len -> UpdateIds] : len \in 0..MaxBatch }

IntegerIds(response) ==
    { response[i].num.n : i \in { x \in 1..Len(response) : response[x].j = "num" } }

\* the response is one the Bot API sends: integer ids from the offset on, in
\* increasing order, none of the updates sent before and not yet confirmed by
\* the offset skipped
InOrder(offset, received, response) ==
    \A i \in 1..Len(response) :
        /\ response[i].j = "num"
        /\ response[i].num.n >= offset
        /\ \A j \in 1..(i - 1) : response[j].num.n < response[i].num.n
        /\ \A id \in received :
               offset <= id /\ id < response[i].num.n
                   => id \in IntegerIds(response)

\* the responses of a run: any, or (where the threads are what is looked at)
\* an empty one, one update, one update whose id int() rejects
FewResponses == { <<>>, <<JNum(PyInt(0))>>, <<JNull>> }
Feed(feed) == IF feed = "any" THEN Responses ELSE FewResponses

PollerInit ==
    /\ poller = StartedPoller
    /\ status = [kind |-> "absent"]
    /\ monitor = IdleMonitor
    /\ recipients = NoRecipients
    /\ notifier = IdleNotifier
    /\ call = [op |-> "init"]
    /\ ret = [op |-> "init"]
    /\ file = [kind |-> "absent"]
    /\ gate = IdleGate
    /\ clock = 0
    /\ last_ready = None

\* a failed request that ends the update loop
PollFailsFatal ==
    /\ poller.update = "running" /\ ~poller.stop
    /\ poller.next > Len(poller.response)
    /\ poller' = [poller EXCEPT !.response = <<>>, !.next = 1,
                                !.aborted = TRUE, !.update = "crashed"]
    /\ call' = [op |-> "getUpdates", offset |-> poller.offset]
    /\ ret' = [op |-> "getUpdates", raised |-> TRUE]
    /\ UNCHANGED <<recipients, notifier, file, gate, clock, last_ready, status, monitor>>

\* session.get(...getUpdates...) raises, or raise_for_status() or json() does
PollFails ==
    /\ poller.update = "running" /\ ~poller.stop
    /\ poller.next > Len(poller.response)
    /\ poller' = [poller EXCEPT !.response = <<>>, !.next = 1, !.aborted = TRUE]
    /\ call' = [op |-> "getUpdates", offset |-> poller.offset]
    /\ ret' = [op |-> "getUpdates", raised |-> TRUE]
    /\ UNCHANGED <<recipients, notifier, file, gate, clock, last_ready, status, monitor>>

\* one getUpdates request answered
Poll ==
    /\ poller.update = "running" /\ ~poller.stop
    /\ poller.next > Len(poller.response)
    /\ \E response \in Feed(poller.feed) :
        /\ poller' = [poller EXCEPT
                        !.response = response, !.next = 1, !.aborted = FALSE,
                        !.received = @ \cup IntegerIds(response),
                        !.in_order = @ /\ InOrder(poller.offset, poller.received, response)]
        /\ call' = [op |-> "getUpdates", offset |-> poller.offset]
        /\ ret' = [op |-> "getUpdates", raised |-> FALSE]
    /\ UNCHANGED <<recipients, notifier, file, gate, clock, last_ready, status, monitor>>

\* one turn of the for loop: the offset moves, then _handle_update runs and
\* returns or raises; an exception ends the work on the response
HandleNext ==
    /\ poller.update = "running"
    /\ poller.next <= Len(poller.response)
    /\ LET update == poller.response[poller.next]
           update_id == IntOf(Get(update, JNum(PyInt(0))))
       IN  IF ~update_id.ok
           THEN /\ poller' = [poller EXCEPT !.next = Len(poller.response) + 1,
                                            !.aborted = TRUE]
                /\ call' = [op |-> "update", update_id |-> update]
                /\ ret' = [op |-> "update", raised |-> TRUE,
                           dispatched |-> FALSE]
           ELSE \E raises \in BOOLEAN :
                /\ poller' = [poller EXCEPT
                       !.offset = offset_after(@, update_id.v),
                       !.handled = IF update.j = "num"
                                   THEN @ \cup {update_id.v} ELSE @,
                       !.next = IF raises THEN Len(poller.response) + 1
                                ELSE @ + 1,
                       !.aborted = raises]
                /\ call' = [op |-> "update", update_id |-> update]
                /\ ret' = [op |-> "update", raised |-> raises,
                           dispatched |-> TRUE]
    /\ UNCHANGED <<recipients, notifier, file, gate, clock, last_ready, status, monitor>>

\* stop(): the event is set (the joins wait for the loops, five seconds each
\* at most)
StopSignal ==
    /\ ~poller.stop
    /\ poller' = [poller EXCEPT !.stop = TRUE]
    /\ call' = [op |-> "stop_poller"]
    /\ ret' = [op |-> "stop_poller"]
    /\ UNCHANGED <<recipients, notifier, file, gate, clock, last_ready, status, monitor>>

\* while not self._stop.is_set(): the test fails between two iterations
UpdateLoopExit ==
    /\ poller.update = "running" /\ poller.stop
    /\ poller.next > Len(poller.response)
    /\ poller' = [poller EXCEPT !.update = "exited"]
    /\ call' = [op |-> "update_loop_exit"]
    /\ ret' = [op |-> "update_loop_exit"]
    /\ UNCHANGED <<recipients, notifier, file, gate, clock, last_ready, status, monitor>>

PollerNext == PollFails \/ Poll \/ HandleNext \/ StopSignal \/ UpdateLoopExit

SpecPoller == PollerInit /\ [][PollerNext]_vars

----------------------------------------------------------------------------
(* The watch loop: TelegramStartPoller._run_watch, the /cal_watch handlers
   and the status callback api._format_calibration_status.  Times and
   intervals are tenths of a second; time.monotonic() is read off the clock. *)

\* float(x)
FloatOf(value) ==
    CASE value.j = "null" -> Err("TypeError")
      [] value.j = "bool" -> Ok(PyFloat(IF value.b THEN 10 ELSE 0))
      [] value.j = "num" ->
           (IF value.num.k = "int" THEN Ok(PyFloat(10 * value.num.n))
            ELSE Ok(value.num))
      [] value.j = "str" -> FloatOfText(value.text)
      [] OTHER -> Err("TypeError")

\* a JSON object of any keys
JAnyObject(fields) == [j |-> "object", fields |-> fields]

\* read_status: the dict read, {} when the file is absent, is no JSON or is
\* no object
read_status(st) ==
    IF st.kind # "json" THEN EmptyDict
    ELSE IF st.doc.j # "object" THEN EmptyDict
    ELSE st.doc.fields

\* status.get(key, default)
GetField(d, key, default) == IF key \in DOMAIN d THEN d[key] ELSE default

\* api._format_calibration_status: (ok, detail), or the exception raised
format_calibration_status(f, st) ==
    LET control == load_control(f)
        data == read_status(st)
        primary == FloatOf(GetField(data, "primary_score", JNum(PyFloat(0))))
        baby == FloatOf(GetField(data, "baby_score", JNum(PyFloat(0))))
        cat == FloatOf(GetField(data, "cat_score", JNum(PyFloat(0))))
    IN  IF ~control.ok THEN Err(control.error)
        ELSE IF ~control.v.active
        THEN Ok([ok |-> FALSE, detail |-> "calibration inactive"])
        ELSE IF DOMAIN data = {}
        THEN Ok([ok |-> TRUE, detail |-> "waiting_for_live_status"])
        ELSE IF ~primary.ok THEN Err(primary.error)
        ELSE IF ~baby.ok THEN Err(baby.error)
        ELSE IF ~cat.ok THEN Err(cat.error)
        ELSE Ok([ok |-> TRUE, detail |-> "live"])

\* api._calibration_watch_interval
calibration_watch_interval(f) ==
    LET control == load_control(f)
    IN  IF ~control.ok THEN Err(control.error)
        ELSE IF control.v.interval_seconds > 0
        THEN Ok(control.v.interval_seconds)
        ELSE Ok(DEFAULT_CALIBRATION_INTERVAL_SECONDS)

\* max(2.0, min(interval, 600.0)) of a float: min(nan, 600.0) is nan and
\* max(2.0, nan) is 2.0
clamp_watch_interval(x) ==
    CASE x.k = "nan" -> 20
      [] x.k = "inf" -> 6000
      [] OTHER -> Max(20, Min(x.tenths, 6000))

\* an entry of self._watchers
Watcher(chat_id, interval, next_at) ==
    [chat_id |-> chat_id, interval |-> interval, next_at |-> next_at]

\* self._watchers[chat_id] = ...: a chat already in the dict keeps its place
RECURSIVE PutWatcher(_, _)
PutWatcher(watchers, w) ==
    IF watchers = <<>> THEN <<w>>
    ELSE IF Head(watchers).chat_id = w.chat_id THEN <<w>> \o Tail(watchers)
    ELSE <<Head(watchers)>> \o PutWatcher(Tail(watchers), w)

\* self._watchers.pop(chat_id, None)
PopWatcher(watchers, chat_id) ==
    LET Other(w) == w.chat_id # chat_id IN SelectSeq(watchers, Other)

\* _handle_cal_watch: the registry afterwards, or the exception raised
handle_cal_watch(watchers, f, now, chat_id, arg) ==
    LET given == FloatOfText(Val(arg))
        asked == calibration_watch_interval(f)
    IN  IF ~IsNone(arg) /\ ~given.ok THEN Ok(watchers)
        ELSE IF IsNone(arg) /\ ~asked.ok THEN Err(asked.error)
        ELSE LET interval ==
                     IF IsNone(arg) THEN PyFloat(10 * asked.v) ELSE given.v
             IN  Ok(PutWatcher(watchers,
                        Watcher(chat_id, clamp_watch_interval(interval), now)))

\* the for loop of _run_watch over list(self._watchers.items()): the chats
\* replied to, the registry afterwards and whether the callback raised
RECURSIVE serve_watchers(_, _, _, _, _)
serve_watchers(todo, watchers, served, now, outcome) ==
    IF todo = <<>>
    THEN [watchers |-> watchers, served |-> served, raised |-> FALSE]
    ELSE LET w == Head(todo)
             interval == Max(20, w.interval)
             fired == PutWatcher(watchers,
                          Watcher(w.chat_id, w.interval, now + interval))
         IN  IF now < w.next_at
             THEN serve_watchers(Tail(todo), watchers, served, now, outcome)
             ELSE IF ~outcome.ok
             THEN [watchers |-> watchers, served |-> served, raised |-> TRUE]
             ELSE IF outcome.v.ok
             THEN serve_watchers(Tail(todo), fired,
                                 served \cup {w.chat_id}, now, outcome)
             ELSE serve_watchers(Tail(todo), PopWatcher(fired, w.chat_id),
                                 served \cup {w.chat_id}, now, outcome)

Chats == {"chat1", "chat2"}

WatchArgs == { None, Some(Numeral(10, FALSE, FALSE)), Some(Word("abc", "lower", FALSE)) }

\* the control file of a session, no control file, and one load_control
\* cannot read
WatchControlFiles ==
    { save_control(CalibrationControl(TRUE, PhaseName("phase1"), 3, EmptyDict)),
      NoControlFile, JsonFile(JList) }

Score(tenths) == JNum(PyFloat(tenths))

StatusFiles ==
    { NoControlFile,
      JsonFile(JAnyObject([key \in {"primary_score", "baby_score", "cat_score"}
                              |-> Score(5)])),
      JsonFile(JAnyObject([key \in {"primary_score", "baby_score", "cat_score"}
                              |-> IF key = "baby_score"
                                  THEN JStr(Word("high", "lower", FALSE))
                                  ELSE Score(5)])) }

WatchInit ==
    /\ poller = [StartedPoller EXCEPT !.feed = "few"]
    /\ file \in WatchControlFiles
    /\ status \in StatusFiles
    /\ call = [op |-> "init"]
    /\ ret = [op |-> "init"]
    /\ gate = IdleGate
    /\ clock = 0
    /\ last_ready = None
    /\ monitor = IdleMonitor
    /\ recipients = NoRecipients
    /\ notifier = IdleNotifier

\* a /cal_watch message handled by the update loop
CalWatch ==
    /\ poller.update = "running"
    /\ \E chat_id \in Chats, arg \in WatchArgs :
        LET r == handle_cal_watch(poller.watchers, file, 10 * clock, chat_id, arg)
        IN  /\ poller' = [poller EXCEPT
                            !.watchers = IF r.ok THEN r.v ELSE @]
            /\ call' = [op |-> "cal_watch", chat_id |-> chat_id, arg |-> arg]
            /\ ret' = [op |-> "cal_watch", raised |-> ~r.ok]
    /\ UNCHANGED <<recipients, notifier, file, gate, clock, last_ready, status, monitor>>

\* a /cal_watch_stop message handled by the update loop
CalWatchStop ==
    /\ poller.update = "running"
    /\ \E chat_id \in Chats :
        /\ poller' = [poller EXCEPT !.watchers = PopWatcher(@, chat_id)]
        /\ call' = [op |-> "cal_watch_stop", chat_id |-> chat_id]
        /\ ret' = [op |-> "cal_watch_stop", raised |-> FALSE]
    /\ UNCHANGED <<recipients, notifier, file, gate, clock, last_ready, status, monitor>>

\* one turn of the while loop of _run_watch; an exception of the callback
\* leaves the loop and ends the thread
WatchTick ==
    /\ poller.watch = "running" /\ ~poller.stop
    /\ LET r == serve_watchers(poller.watchers, poller.watchers, {},
                               10 * clock,
                               format_calibration_status(file, status))
       IN  /\ poller' = [poller EXCEPT
                           !.watchers = r.watchers,
                           !.watch = IF r.raised THEN "crashed" ELSE @]
           /\ call' = [op |-> "watch_tick", now |-> 10 * clock]
           /\ ret' = [op |-> "watch_tick", served |-> r.served,
                      raised |-> r.raised]
    /\ UNCHANGED <<recipients, notifier, file, gate, clock, last_ready, status, monitor>>

\* a watch loop that does not test the stop signal
WatchLoopIgnoresStop ==
    /\ poller.watch = "running" /\ poller.stop
    /\ call' = [op |-> "watch_sleep"]
    /\ ret' = [op |-> "watch_sleep"]
    /\ UNCHANGED <<recipients, notifier, poller, file, gate, clock, last_ready, status, monitor>>

\* while not self._stop.is_set(): the test fails between two turns
WatchLoopExit ==
    /\ poller.watch = "running" /\ poller.stop
    /\ poller' = [poller EXCEPT !.watch = "exited"]
    /\ call' = [op |-> "watch_loop_exit"]
    /\ ret' = [op |-> "watch_loop_exit"]
    /\ UNCHANGED <<recipients, notifier, file, gate, clock, last_ready, status, monitor>>

WatchNext ==
    Tick \/ CalWatch \/ CalWatchStop \/ WatchTick \/ StopSignal \/ WatchLoopExit

SpecWatch == WatchInit /\ [][WatchNext]_vars

----------------------------------------------------------------------------
(* The watch registry under the two loops.  self._watchers is a plain dict
   with no lock; the handlers of the update loop put and pop entries while
   the watch loop walks list(self._watchers.items()), a copy of the dict
   holding the same entry objects, and calls the status callback and the
   transport between its reads and writes of the dict.  Every entry object
   carries the number of the registration that created it, so that an entry
   put again for the same chat is told from the one it replaced. *)

\* the entry objects created in one behaviour
MaxWatches == 2

\* the dict object of a registration
WatchObject(w, id) ==
    [chat_id |-> w.chat_id, interval |-> w.interval, next_at |-> w.next_at,
     id |-> id]

\* the registry after _handle_cal_watch stored a new dict for chat_id
StoreWatchObject(watchers, chat_id, id) ==
    [i \in DOMAIN watchers |->
        IF watchers[i].chat_id = chat_id THEN WatchObject(watchers[i], id)
        ELSE watchers[i]]

\* watch["next_at"] = now + interval: the object changes, in the dict or not
SetNextAt(watchers, id, next_at) ==
    [i \in DOMAIN watchers |->
        IF watchers[i].id = id THEN [watchers[i] EXCEPT !.next_at = next_at]
        ELSE watchers[i]]

\* the body of the for loop of _run_watch for one (chat_id, watch) of the
\* copy: the chat replied to, the registry afterwards, whether the callback
\* raised
serve_watch(watchers, w, now, outcome) ==
    LET interval == Max(20, w.interval)
        fired == SetNextAt(watchers, w.id, now + interval)
    IN  IF now < w.next_at
        THEN [watchers |-> watchers, pushed |-> None, raised |-> FALSE]
        ELSE IF ~outcome.ok
        THEN [watchers |-> watchers, pushed |-> None, raised |-> TRUE]
        ELSE IF outcome.v.ok
        THEN [watchers |-> fired, pushed |-> Some(w.chat_id), raised |-> FALSE]
        ELSE [watchers |-> PopWatcher(fired, w.chat_id),
              pushed |-> Some(w.chat_id), raised |-> FALSE]

RegistryInit ==
    /\ poller = [StartedPoller EXCEPT !.feed = "few"]
    /\ file \in WatchControlFiles
    /\ status = NoControlFile
    /\ call = [op |-> "init"]
    /\ ret = [op |-> "init"]
    /\ gate = IdleGate
    /\ clock = 0
    /\ last_ready = None
    /\ monitor = IdleMonitor
    /\ recipients = NoRecipients
    /\ notifier = IdleNotifier

\* a /cal_watch message handled by the update loop
RegistryCalWatch ==
    /\ poller.update = "running"
    /\ poller.watches < MaxWatches
    /\ \E chat_id \in Chats, arg \in WatchArgs :
        LET r == handle_cal_watch(poller.watchers, file, 10 * clock, chat_id, arg)
            stored == r.ok /\ r.v # poller.watchers
        IN  /\ poller' = [poller EXCEPT
                            !.watchers =
                                IF stored
                                THEN StoreWatchObject(r.v, chat_id,
                                                      poller.watches + 1)
                                ELSE @,
                            !.watches = IF stored THEN @ + 1 ELSE @]
            /\ call' = [op |-> "cal_watch", chat_id |-> chat_id, arg |-> arg]
            /\ ret' = [op |-> "cal_watch", raised |-> ~r.ok, stored |-> stored]
    /\ UNCHANGED <<recipients, notifier, file, gate, clock, last_ready, status,
                   monitor>>

\* a /cal_watch_stop message handled by the update loop
RegistryCalWatchStop ==
    /\ poller.update = "running"
    /\ \E chat_id \in Chats :
        /\ poller' = [poller EXCEPT !.watchers = PopWatcher(@, chat_id)]
        /\ call' = [op |-> "cal_watch_stop", chat_id |-> chat_id]
        /\ ret' = [op |-> "cal_watch_stop", raised |-> FALSE]
    /\ UNCHANGED <<recipients, notifier, file, gate, clock, last_ready, status,
                   monitor>>

\* a /cal_stop message handled by the update loop: the registry is cleared
\* when the callback reports success
RegistryCalStop ==
    /\ poller.update = "running"
    /\ LET r == stop_calibration(file)
       IN  /\ file' = r.file
           /\ poller' = [poller EXCEPT !.watchers = IF r.ok THEN <<>> ELSE @]
           /\ call' = [op |-> "cal_stop"]
           /\ ret' = [op |-> "cal_stop", ok |-> r.ok]
    /\ UNCHANGED <<recipients, notifier, gate, clock, last_ready, status,
                   monitor>>

\* the watch loop starts a turn: now = time.monotonic() and the copy
\* list(self._watchers.items())
WatchSnapshot ==
    /\ poller.watch = "running" /\ ~poller.stop
    /\ poller.snapshot = <<>> /\ poller.watchers # <<>>
    /\ poller' = [poller EXCEPT !.snapshot = poller.watchers,
                                !.now = 10 * clock]
    /\ call' = [op |-> "watch_snapshot"]
    /\ ret' = [op |-> "watch_snapshot"]
    /\ UNCHANGED <<recipients, notifier, file, gate, clock, last_ready, status,
                   monitor>>

\* the watch loop runs the loop body for the next entry of its copy
WatchServe ==
    /\ poller.watch = "running" /\ poller.snapshot # <<>>
    /\ LET w == Head(poller.snapshot)
           r == serve_watch(poller.watchers, w, poller.now,
                            format_calibration_status(file, status))
       IN  /\ poller' = [poller EXCEPT
                           !.watchers = r.watchers,
                           !.snapshot = IF r.raised THEN <<>> ELSE Tail(@),
                           !.watch = IF r.raised THEN "crashed" ELSE @]
           /\ call' = [op |-> "watch_serve", watch |-> w]
           /\ ret' = [op |-> "watch_serve", pushed |-> r.pushed,
                      raised |-> r.raised]
    /\ UNCHANGED <<recipients, notifier, file, gate, clock, last_ready, status,
                   monitor>>

RegistryNext ==
    \/ Tick
    \/ RegistryCalWatch \/ RegistryCalWatchStop \/ RegistryCalStop
    \/ WatchSnapshot \/ WatchServe

SpecRegistry == RegistryInit /\ [][RegistryNext]_vars

----------------------------------------------------------------------------
(* The life cycle of the poller: TelegramStartPoller.start and stop called
   from any thread, and the two loops they create.  start() holds no lock:
   its test of self._thread and its assignment are two steps, between which
   another caller can run. *)

Callers == {"startup", "other"}

ThreadsInit ==
    /\ poller = [IdlePoller EXCEPT !.feed = "few"]
    /\ file = save_control(CalibrationControl(TRUE, PhaseName("phase1"), 3, EmptyDict))
    /\ status = NoControlFile
    /\ call = [op |-> "init"]
    /\ ret = [op |-> "init"]
    /\ gate = IdleGate
    /\ clock = 0
    /\ last_ready = None
    /\ monitor = IdleMonitor
    /\ recipients = NoRecipients
    /\ notifier = IdleNotifier

\* start(): if self._thread is not None: return
StartCheck ==
    /\ \E caller \in Callers \ poller.starting :
        /\ poller' = [poller EXCEPT
                        !.starting = IF poller.has_thread THEN @
                                     ELSE @ \cup {caller}]
        /\ call' = [op |-> "start_poller", caller |-> caller]
        /\ ret' = [op |-> "start_poller",
                   returned |-> poller.has_thread, created |-> FALSE]
    /\ UNCHANGED <<recipients, notifier, file, gate, clock, last_ready, status, monitor>>

\* start(): the two threads are created, assigned and started
StartCreate ==
    /\ \E caller \in poller.starting :
        /\ poller' = [poller EXCEPT
                        !.starting = @ \ {caller},
                        !.has_thread = TRUE,
                        !.update_loops = @ + 1,
                        !.watch_loops = @ + 1,
                        !.update = "running",
                        !.watch = "running"]
        /\ call' = [op |-> "start_poller", caller |-> caller]
        /\ ret' = [op |-> "start_poller", returned |-> TRUE, created |-> TRUE]
    /\ UNCHANGED <<recipients, notifier, file, gate, clock, last_ready, status, monitor>>

ThreadsNext ==
    \/ StartCheck \/ StartCreate \/ StopSignal
    \/ PollFails \/ Poll \/ HandleNext \/ UpdateLoopExit
    \/ CalWatch \/ WatchTick \/ WatchLoopExit

SpecThreads == ThreadsInit /\ [][ThreadsNext]_vars

\* both loops are threads the interpreter keeps scheduling: a loop that can
\* take its next step takes it
SpecThreadsFair ==
    /\ SpecThreads
    /\ WF_vars(HandleNext)
    /\ WF_vars(UpdateLoopExit)
    /\ WF_vars(WatchLoopExit)

----------------------------------------------------------------------------
(* The processing loop: the for loop of cli.main over the audio windows,
   next to the command callbacks of api.create_app, which run in another
   process and share the control file and the status file with it.  Scores
   and thresholds are tenths; time.monotonic() and utcnow() are read off the
   clock, in seconds, which stands still over the windows of a run. *)

\* MonitorConfig.from_env()
Config ==
    [ primary_cry_threshold |-> 5, baby_threshold |-> 5, cat_weight |-> 10,
      margin_threshold |-> 1, cat_suppress_threshold |-> 5,
      confirm_n |-> 2, confirm_m |-> 2, alert_cooldown_seconds |-> 0 ]

\* a weight in tenths as the gate and the policy count it (whole weights)
WeightOf(tenths) == (tenths \div 10) * WeightDen

\* MonitorService.__init__: the gate built from the configuration
MonitorGate ==
    GatingEngine(Config.baby_threshold, WeightOf(Config.cat_weight),
                 Config.margin_threshold, Config.cat_suppress_threshold,
                 Config.confirm_n, Config.confirm_m,
                 Config.alert_cooldown_seconds, Config.primary_cry_threshold)

\* float(x) of a finite number, in tenths
FloatTenths(x) == IF x.k = "int" THEN 10 * x.n ELSE x.tenths

\* int(x) of a finite number
IntValue(x) == IF x.k = "int" THEN x.n ELSE Trunc(x.tenths)

\* float(calibration.overrides.get(key, default))
float_override(control, key, default) ==
    IF key \in DOMAIN control.overrides
    THEN FloatTenths(control.overrides[key]) ELSE default

\* int(calibration.overrides.get(key, default))
int_override(control, key, default) ==
    IF key \in DOMAIN control.overrides
    THEN IntValue(control.overrides[key]) ELSE default

\* the arguments of service.gating.update_runtime in a cycle
gate_arguments(control) ==
    IF control.active /\ control.phase = PhaseName("phase1")
    THEN [ primary_threshold |->
               float_override(control, "PRIMARY_CRY_THRESHOLD",
                              Config.primary_cry_threshold),
           confirm_n |-> int_override(control, "CONFIRM_N", Config.confirm_n),
           confirm_m |-> int_override(control, "CONFIRM_M", Config.confirm_m),
           cooldown_seconds |->
               int_override(control, "ALERT_COOLDOWN_SECONDS",
                            Config.alert_cooldown_seconds) ]
    ELSE [ primary_threshold |-> Config.primary_cry_threshold,
           confirm_n |-> Config.confirm_n,
           confirm_m |-> Config.confirm_m,
           cooldown_seconds |-> Config.alert_cooldown_seconds ]

phase2_thresholds_of_config(control) ==
    [ baby_threshold |-> Config.baby_threshold,
      cat_threshold |-> Config.cat_suppress_threshold,
      cat_weight |-> Config.cat_weight,
      margin_threshold |-> Config.margin_threshold ]

\* second-stage thresholds that ignore the overrides of the control
phase2_thresholds_ignoring_overrides(control) ==
    phase2_thresholds_of_config(control)

\* phase2_baby_threshold, phase2_cat_threshold, phase2_cat_weight and
\* phase2_margin_threshold of a cycle
phase2_thresholds(control) ==
    IF control.active /\ control.phase = PhaseName("phase2")
    THEN [ baby_threshold |->
               float_override(control, "CRY_THRESHOLD", Config.baby_threshold),
           cat_threshold |->
               float_override(control, "CAT_THRESHOLD",
                              Config.cat_suppress_threshold),
           cat_weight |->
               float_override(control, "CAT_WEIGHT", Config.cat_weight),
           margin_threshold |->
               float_override(control, "MARGIN_THRESHOLD",
                              Config.margin_threshold) ]
    ELSE phase2_thresholds_of_config(control)

\* write_status(artifact_dir, payload)
write_status(payload) == JsonFile(JAnyObject(payload))

\* the payload of the status written in a cycle
status_payload(control, decision, verifier_passed, blocked_by, final_result) ==
    [ key \in {"phase", "gate_ready", "would_alert", "alert_blocked_by",
                "baby_score"}
        |-> CASE key = "phase" -> JStr(control.phase)
              [] key = "gate_ready" -> JBool(decision.ready_for_alert)
              [] key = "would_alert" ->
                     JBool(decision.ready_for_alert /\ verifier_passed)
              [] key = "alert_blocked_by" ->
                     JStr(Word(blocked_by, "lower", FALSE))
              [] key = "baby_score" -> Score(final_result.baby_score) ]

\* a block reason that leaves the external validator out
alert_blocked_by_without_validator(ready, verifier_passed, ollama, active) ==
    IF ~ready THEN "none"
    ELSE IF ~verifier_passed THEN "verifier"
    ELSE IF active THEN "calibration"
    ELSE "none"

\* blocked_by at the end of the branch of an alert-ready decision: the
\* verifier, then the validator, which is asked whatever the verifier said,
\* then the calibration session; none is the branch that saves the clip and
\* emits the alert
alert_blocked_by(ready, verifier_passed, ollama, active) ==
    IF ~ready THEN "none"
    ELSE IF ollama = "block" THEN "ollama"
    ELSE IF ~verifier_passed THEN "verifier"
    ELSE IF active THEN "calibration"
    ELSE "none"

\* what one cycle reports: the control it read, the thresholds of the second
\* stage in force, how each stage ended, and the scores of the second stage
\* when it ran
CycleOut(control, thresholds, ready, verifier, scored, ollama, alert, raised) ==
    [ op |-> "cycle", control |-> control, thresholds |-> thresholds,
      ready |-> ready, verifier |-> verifier, scored |-> scored,
      ollama |-> ollama, alert |-> alert, raised |-> raised ]

\* one turn of the for loop of main; an exception that nothing in the loop
\* catches ends the loop
cycle(m, g, calibration, st, now, window, verifier, ollama, transport) ==
    LET control == calibration.v
        args == gate_arguments(control)
        tuned == update_runtime(g, Some(args.primary_threshold),
                                Some(args.confirm_n), Some(args.confirm_m),
                                Some(args.cooldown_seconds))
        thresholds == phase2_thresholds(control)
        e == evaluate(tuned, window.primary_score, window.baby_score,
                      window.cat_score, now)
        ready == e.decision.ready_for_alert
        verifier_raised == ready /\ verifier.raises
        verifier_passed ==
            IF ready
            THEN passes_verifier_with_thresholds(verifier,
                     thresholds.baby_threshold,
                     WeightOf(thresholds.cat_weight),
                     thresholds.margin_threshold, thresholds.cat_threshold)
            ELSE TRUE
        final_result ==
            IF ready
            THEN [ primary_score |-> window.primary_score,
                   baby_score |-> verifier.baby_score,
                   cat_score |-> verifier.cat_score ]
            ELSE window
        blocked_by ==
            alert_blocked_by(ready, verifier_passed, ollama, control.active)
        alerting == ready /\ blocked_by = "none"
        alert_raised == alerting /\ transport \in {"text_fails", "retry_fails"}
        writing == control.active /\ now >= m.status_next_at
        out == CycleOut(control, thresholds, ready,
                   IF ~ready THEN "skipped"
                   ELSE IF verifier.raises THEN "raised"
                   ELSE IF verifier_passed THEN "passed" ELSE "blocked",
                   IF ready /\ ~verifier.raises
                   THEN Some([baby_score |-> verifier.baby_score,
                              cat_score |-> verifier.cat_score])
                   ELSE None,
                   IF ~ready \/ verifier_raised THEN "skipped"
                   ELSE IF ollama = "raises" THEN "raised" ELSE ollama,
                   IF ~alerting \/ verifier_raised THEN "none"
                   ELSE IF transport = "ok" THEN "sent" ELSE transport,
                   verifier_raised \/ alert_raised)
    IN  IF ~calibration.ok
        THEN [ monitor |-> [m EXCEPT !.alive = FALSE], gate |-> g,
               status |-> st,
               out |-> [op |-> "cycle", raised |-> TRUE,
                        error |-> calibration.error] ]
        ELSE IF verifier_raised \/ alert_raised
        THEN [ monitor |-> [m EXCEPT !.alive = FALSE], gate |-> e.gate,
               status |-> st, out |-> out ]
        ELSE [ monitor |->
                   [m EXCEPT !.status_next_at =
                                IF writing
                                THEN now + Max(2, control.interval_seconds)
                                ELSE @],
               gate |-> e.gate,
               status |-> IF writing
                          THEN write_status(status_payload(control, e.decision,
                                   verifier_passed, blocked_by, final_result))
                          ELSE st,
               out |-> out ]

\* the audio windows as the primary backend scores them
Windows ==
    { [primary_score |-> 0, baby_score |-> 0, cat_score |-> 0],
      [primary_score |-> 10, baby_score |-> 10, cat_score |-> 0] }

\* verifier_backend.score: the result, or an exception
VerifierOutcomes ==
    { [raises |-> TRUE, baby_score |-> 0, cat_score |-> 0],
      [raises |-> FALSE, baby_score |-> 10, cat_score |-> 0],
      [raises |-> FALSE, baby_score |-> 0, cat_score |-> 10] }

\* ollama_validator.validate: the decision, or an exception
OllamaOutcomes == {"allow", "block", "raises"}

\* notifier.send_alert: sent, the text send failed, the clip send failed and
\* its retry went through, the retry failed too
TransportOutcomes == {"ok", "text_fails", "retried", "retry_fails"}

\* the commands of the remote operator
MonitorCommands ==
    { [op |-> "start", phase |-> PhaseName("phase1")],
      [op |-> "start", phase |-> PhaseName("phase2")],
      [op |-> "stop"],
      [op |-> "set", parameter |-> KeyName("CONFIRM_N"),
       raw_value |-> Numeral(0, FALSE, FALSE)],
      [op |-> "set", parameter |-> KeyName("CRY_THRESHOLD"),
       raw_value |-> Numeral(20, FALSE, FALSE)] }

\* api._calibration_start, _calibration_stop and _calibration_set
run_command(f, cmd) ==
    CASE cmd.op = "start" -> start_calibration(f, cmd.phase, JNull)
      [] cmd.op = "stop" -> stop_calibration(f)
      [] cmd.op = "set" -> set_override(f, cmd.parameter, cmd.raw_value)

\* path.write_text: the file is opened for writing, which empties it
Truncated == NotJson

MonitorInit ==
    /\ monitor = IdleMonitor
    /\ recipients = NoRecipients
    /\ notifier = IdleNotifier
    /\ gate = MonitorGate
    /\ file = NoControlFile
    /\ status = NoControlFile
    /\ poller = IdlePoller
    /\ clock = 0
    /\ last_ready = None
    /\ call = [op |-> "init"]
    /\ ret = [op |-> "init"]

\* a cycle that saves the control it read
CycleSavingControl ==
    /\ monitor.alive
    /\ file' = save_control(load_control(file).v)
    /\ call' = [op |-> "cycle"]
    /\ ret' = [op |-> "cycle", raised |-> FALSE]
    /\ UNCHANGED <<recipients, notifier, gate, clock, last_ready, poller, status, monitor>>

\* one audio window processed
Cycle ==
    /\ monitor.alive
    /\ \E calibration \in {load_control(file)}, window \in Windows,
          verifier \in VerifierOutcomes, ollama \in OllamaOutcomes,
          transport \in TransportOutcomes :
        LET r == cycle(monitor, gate, calibration, status, clock, window,
                       verifier, ollama, transport)
        IN  /\ monitor' = r.monitor
            /\ gate' = r.gate
            /\ status' = r.status
            /\ call' = [op |-> "cycle"]
            /\ ret' = r.out
    /\ UNCHANGED <<recipients, notifier, file, clock, last_ready, poller>>

\* a command of the operator up to the opening of the control file for
\* writing; a command that is refused writes nothing
CommandBegin ==
    /\ IsNone(poller.writing)
    /\ \E cmd \in MonitorCommands :
        LET r == run_command(file, cmd)
        IN  /\ file' = IF r.ok THEN Truncated ELSE file
            /\ poller' = [poller EXCEPT
                            !.writing = IF r.ok
                                        THEN Some([before |-> file,
                                                   content |-> r.file,
                                                   cmd |-> cmd])
                                        ELSE None]
            /\ call' = [op |-> "command", cmd |-> cmd]
            /\ ret' = [op |-> "command", ok |-> r.ok]
    /\ UNCHANGED <<recipients, notifier, gate, clock, last_ready, status, monitor>>

\* the text of the control is written and the file closed
CommandEnd ==
    /\ ~IsNone(poller.writing)
    /\ file' = Val(poller.writing).content
    /\ poller' = [poller EXCEPT !.writing = None]
    /\ call' = [op |-> "command_end"]
    /\ ret' = [op |-> "command_end"]
    /\ UNCHANGED <<recipients, notifier, gate, clock, last_ready, status, monitor>>

MonitorNext == Cycle \/ CommandBegin \/ CommandEnd

SpecMonitor == MonitorInit /\ [][MonitorNext]_vars

----------------------------------------------------------------------------
(* Notification transport: TelegramNotifier and TelegramRecipientStore.  The
   store file is written by the registration handlers and read by every
   send of the processing loop, which runs in another process.  A chat id is
   a text; the store keeps the stripped texts. *)

\* the file a store writes: json.dumps(sorted(current))
RecipientList(ids) == [kind |-> "list", ids |-> ids]

\* path.write_text has opened the file and not yet written it
TruncatedList == [kind |-> "truncated"]

\* TelegramRecipientStore.list_chat_ids: the ids, or the exception json.loads
\* raises on an empty text
list_chat_ids(f) ==
    CASE f.kind = "absent" -> Ok({})
      [] f.kind = "truncated" -> Err("JSONDecodeError")
      [] OTHER -> Ok(f.ids)

\* TelegramRecipientStore.add_chat_id: whether it wrote, and the file written
add_chat_id(f, chat_id) ==
    LET stripped == Strip(chat_id)
    IN  IF stripped.core = "" THEN [wrote |-> FALSE, file |-> f]
        ELSE [wrote |-> TRUE,
              file |-> RecipientList(list_chat_ids(f).v \cup {stripped})]

\* TelegramNotifier.register_chat_id: the value returned and what the store
\* did
register_chat_id(f, chat_id, accept_new_users) ==
    IF ~accept_new_users
    THEN [returned |-> FALSE, store |-> [wrote |-> FALSE, file |-> f]]
    ELSE [returned |-> TRUE, store |-> add_chat_id(f, chat_id)]

\* the chat ids of the clients, as texts: two ids, one of them padded, and a
\* blank text
ChatIds ==
    { Word("100", "none", FALSE), Word("200", "none", TRUE),
      Word("", "none", TRUE) }

\* sorted(recipients): the order of the sends
ChatOrder == << Word("100", "none", FALSE), Word("200", "none", FALSE) >>

\* TelegramNotifier._recipients (no chat id configured): the sorted ids, or
\* the exception of the store
recipients_of(f) ==
    LET listed == list_chat_ids(f)
        Listed(c) == c \in listed.v
    IN  IF ~listed.ok THEN listed ELSE Ok(SelectSeq(ChatOrder, Listed))

\* one request of the transport
Send(kind, to, ok) == [kind |-> kind, to |-> to, ok |-> ok]

NotifierInit ==
    /\ recipients = NoRecipients
    /\ notifier = IdleNotifier
    /\ poller = IdlePoller
    /\ monitor = IdleMonitor
    /\ gate = IdleGate
    /\ file = NoControlFile
    /\ status = NoControlFile
    /\ clock = 0
    /\ last_ready = None
    /\ call = [op |-> "init"]
    /\ ret = [op |-> "init"]

\* a /start command, a webhook /start or POST /telegram/start, up to the
\* opening of the store file for writing
RegisterBegin ==
    /\ IsNone(poller.writing)
    /\ \E chat_id \in ChatIds, accept_new_users \in BOOLEAN :
        LET r == register_chat_id(recipients, chat_id, accept_new_users)
        IN  /\ recipients' = IF r.store.wrote THEN TruncatedList
                             ELSE recipients
            /\ poller' = [poller EXCEPT
                            !.writing = IF r.store.wrote
                                        THEN Some([before |-> recipients,
                                                   content |-> r.store.file])
                                        ELSE None]
            /\ call' = [op |-> "register", chat_id |-> chat_id,
                        accept_new_users |-> accept_new_users]
            /\ ret' = [op |-> "register", returned |-> r.returned,
                       reply |-> IF r.returned THEN "successful" ELSE "closed"]
    /\ UNCHANGED <<notifier, gate, clock, last_ready, file, status, monitor>>

\* the text of the store is written and the file closed
RegisterEnd ==
    /\ ~IsNone(poller.writing)
    /\ recipients' = Val(poller.writing).content
    /\ poller' = [poller EXCEPT !.writing = None]
    /\ call' = [call EXCEPT !.op = "register_end"]
    /\ ret' = [ret EXCEPT !.op = "register_end"]
    /\ UNCHANGED <<notifier, gate, clock, last_ready, file, status, monitor>>

\* send_alert is called: send_text reads the recipients
AlertBegin ==
    /\ notifier.stage \in {"idle", "done", "failed"}
    /\ LET r == recipients_of(recipients)
       IN  notifier' =
               IF ~r.ok \/ r.v = <<>>
               THEN [IdleNotifier EXCEPT !.stage = "failed"]
               ELSE [IdleNotifier EXCEPT !.stage = "text", !.todo = r.v,
                                         !.texted = list_chat_ids(recipients).v]
    /\ call' = [op |-> "send_alert"]
    /\ ret' = [op |-> "send_alert"]
    /\ UNCHANGED <<recipients, poller, gate, clock, last_ready, file, status,
                   monitor>>

\* send_text: send_direct_text to the next recipient; a request that fails
\* raises out of send_alert
SendText ==
    /\ notifier.stage = "text" /\ notifier.todo # <<>>
    /\ \E ok \in BOOLEAN :
        notifier' = [notifier EXCEPT
                       !.sends = Append(@, Send("text", Head(notifier.todo), ok)),
                       !.todo = IF ok THEN Tail(@) ELSE <<>>,
                       !.stage = IF ok THEN @ ELSE "failed"]
    /\ call' = [op |-> "send_direct_text"]
    /\ ret' = [op |-> "send_direct_text"]
    /\ UNCHANGED <<recipients, poller, gate, clock, last_ready, file, status,
                   monitor>>

\* send_clip is called, the first time or in the except branch: it reads the
\* recipients again
ClipBegin ==
    /\ \/ notifier.stage = "text" /\ notifier.todo = <<>>
       \/ notifier.stage = "retry"
    /\ LET r == recipients_of(recipients)
           next == IF notifier.stage = "text" THEN "clip" ELSE "clip_retry"
       IN  notifier' =
               IF ~r.ok \/ r.v = <<>>
               THEN [notifier EXCEPT
                       !.todo = <<>>,
                       !.stage = IF next = "clip" THEN "retry" ELSE "failed"]
               ELSE [notifier EXCEPT !.todo = r.v, !.stage = next]
    /\ call' = [op |-> "send_clip"]
    /\ ret' = [op |-> "send_clip"]
    /\ UNCHANGED <<recipients, poller, gate, clock, last_ready, file, status,
                   monitor>>

\* a send_clip whose failures are always retried
SendClipRetriedAgain ==
    /\ notifier.stage \in {"clip", "clip_retry"} /\ notifier.todo # <<>>
    /\ Len(notifier.sends) < 8
    /\ \E ok \in BOOLEAN :
        notifier' = [notifier EXCEPT
                       !.sends = Append(@, Send("clip", Head(notifier.todo), ok)),
                       !.todo = IF ok THEN Tail(@) ELSE <<>>,
                       !.stage = IF ok
                                 THEN (IF Tail(notifier.todo) = <<>>
                                       THEN "done" ELSE @)
                                 ELSE "retry"]
    /\ call' = [op |-> "send_direct_clip"]
    /\ ret' = [op |-> "send_direct_clip"]
    /\ UNCHANGED <<recipients, poller, gate, clock, last_ready, file, status,
                   monitor>>

\* send_clip: send_direct_clip to the next recipient; the first failure is
\* caught by send_alert, which calls send_clip once more
SendClip ==
    /\ notifier.stage \in {"clip", "clip_retry"} /\ notifier.todo # <<>>
    /\ \E ok \in BOOLEAN :
        notifier' = [notifier EXCEPT
                       !.sends = Append(@, Send("clip", Head(notifier.todo), ok)),
                       !.todo = IF ok THEN Tail(@) ELSE <<>>,
                       !.stage = IF ok
                                 THEN (IF Tail(notifier.todo) = <<>>
                                       THEN "done" ELSE @)
                                 ELSE (IF @ = "clip" THEN "retry"
                                       ELSE "failed")]
    /\ call' = [op |-> "send_direct_clip"]
    /\ ret' = [op |-> "send_direct_clip"]
    /\ UNCHANGED <<recipients, poller, gate, clock, last_ready, file, status,
                   monitor>>

NotifierNext ==
    \/ RegisterBegin \/ RegisterEnd
    \/ AlertBegin \/ SendText \/ ClipBegin \/ SendClip

SpecNotifier == NotifierInit /\ [][NotifierNext]_vars

----------------------------------------------------------------------------
(* Properties of the Gating Engine and of the Decision Policy *)

\* a step of Evaluate (or one that changes nothing)
IsEvaluateStep == call'.op = "evaluate" /\ clock' = clock

\* a step of UpdateRuntime (or one that changes nothing)
IsUpdateStep == call'.op = "update_runtime" /\ clock' = clock

\* the last k entries of a sequence
LastK(w, k) == [i \in 1..Min(k, Len(w)) |-> w[Len(w) - Min(k, Len(w)) + i]]

CountTrue(w) == Cardinality({i \in 1..Len(w) : w[i]})

\* C1: once an evaluate has returned ready_for_alert at time t, and while the
\* parameters stay as they are, every evaluate at a time t' with
\* t' - t < cooldown_seconds returns ready_for_alert = false.
C1_OncePerCooldown ==
    [][ ( /\ IsEvaluateStep
          /\ ~IsNone(last_ready)
          /\ clock' - Val(last_ready) < gate.cooldown_seconds )
        => ~ret'.ready_for_alert ]_vars

\* the third window of the scenario: two qualifying windows confirmed and
\* alerted, a further qualifying window inside the cooldown is not ready
C1_Witness ==
    /\ call.op = "evaluate"
    /\ gate.confirm_n = 2 /\ gate.confirm_m = 2 /\ gate.cooldown_seconds = 2
    /\ gate.history = <<TRUE, TRUE>>
    /\ ret.candidate /\ ret.confirmed /\ ~ret.suppressed_by_cat
    /\ ~ret.ready_for_alert
    /\ ~IsNone(last_ready) /\ clock - Val(last_ready) = 1

\* C2: in every reachable state of the gate and for all scores, confusable
\* dominance makes evaluate return suppressed_by_cat = true and
\* ready_for_alert = false.
C2_DominanceBlocks ==
    \A p \in Scores, b \in Scores, c \in Scores :
        LET d == evaluate(gate, p, b, c, clock).decision
        IN  ( /\ c >= gate.cat_suppress_threshold
              /\ ~(b > c /\ b >= gate.baby_threshold) )
            => (d.suppressed_by_cat /\ ~d.ready_for_alert)

\* a suppressed window while the history confirms and no cooldown is running
C2_Witness ==
    /\ call.op = "evaluate"
    /\ ret.suppressed_by_cat /\ ret.confirmed /\ ~ret.ready_for_alert
    /\ cooldown_ready_of(gate, clock)
    /\ gate.confirm_n >= 1

\* C3: passes() is true exactly when the target score meets its threshold,
\* the margin meets the margin threshold and confusable dominance does not
\* hold.
C3_PassesExactly ==
    ret.op = "passes" =>
        LET b == call.result.baby_score
            c == call.result.cat_score
        IN  ret.value =
              ( /\ b >= call.baby_threshold
                /\ WeightDen * b - call.cat_weight * c
                      >= WeightDen * call.margin_threshold
                /\ ~( /\ c >= call.cat_suppress_threshold
                      /\ ~(b > c /\ b >= call.baby_threshold) ) )

\* the tie: target = confusable >= suppress threshold, threshold and margin met
C3_Witness ==
    /\ ret.op = "passes"
    /\ ~ret.value
    /\ call.result.baby_score = call.result.cat_score
    /\ call.result.cat_score >= call.cat_suppress_threshold
    /\ call.result.baby_score >= call.baby_threshold
    /\ WeightDen * call.result.baby_score
          - call.cat_weight * call.result.cat_score
          >= WeightDen * call.margin_threshold
    /\ call.result.baby_score > 0

\* C4: evaluate pushes (candidate and not suppressed) into the window, evicting
\* the oldest entry of a window that holds confirm_m entries, and returns
\* confirmed = (number of true entries after the push >= confirm_n).
C4_WindowPush ==
    [][ IsEvaluateStep =>
          LET pushed == ret'.candidate /\ ~ret'.suppressed_by_cat
              window == LastK(Append(gate.history, pushed), gate.confirm_m)
          IN  /\ gate'.history = window
              /\ ret'.confirmed = (CountTrue(window) >= gate.confirm_n) ]_vars

\* a full window after a push: a non-qualifying entry is the oldest left and
\* the qualifying window just pushed confirms
C4_Witness ==
    /\ call.op = "evaluate"
    /\ gate.confirm_m = 2 /\ gate.confirm_n = 1
    /\ gate.history = <<FALSE, TRUE>>
    /\ ret.candidate /\ ~ret.suppressed_by_cat /\ ret.confirmed

C6_LastAlertFrame ==
    [][ /\ (gate'.last_alert_at # gate.last_alert_at =>
               IsEvaluateStep /\ ret'.ready_for_alert)
        /\ (IsEvaluateStep /\ ret'.ready_for_alert =>
               gate'.last_alert_at = Some(clock')) ]_vars

\* a second alert, after the cooldown of the first
C6_Witness ==
    /\ call.op = "evaluate"
    /\ ret.ready_for_alert
    /\ gate.last_alert_at = Some(clock)
    /\ gate.cooldown_seconds = 2
    /\ clock = 2

----------------------------------------------------------------------------
(* Properties of the Calibration Control Store *)

IsStartStep == call'.op = "start"
IsStopStep == call'.op = "stop"

\* the interval a start is asked to persist: 15 when omitted, else clamped
\* to [2, 600]
AskedInterval(interval) ==
    IF interval = JNull THEN 15 ELSE Max(2, Min(interval.num.n, 600))

\* C8: load never raises: it returns a control for every content of the
\* control file, the default control (inactive, phase1, 15 s, no overrides)
\* when the file is absent or is not JSON.
C8_LoadNeverRaises ==
    call.op = "load" =>
        /\ ret.out.ok
        /\ file.kind \in {"absent", "garbage"} =>
               ret.out.v = [active |-> FALSE, phase |-> PhaseName("phase1"),
                            interval_seconds |-> 15, overrides |-> EmptyDict]

\* C9 as stated: a start whose phase is not one of the two enumeration values
\* fails with InvalidPhase and persists nothing; any other start persists
\* (active, the phase, the clamped interval, no overrides).
C9_StartRejectsNonEnum ==
    [][IsStartStep =>
         IF call'.phase \notin {PhaseName("phase1"), PhaseName("phase2")}
         THEN /\ ~ret'.out.ok
              /\ ret'.out.error = "InvalidPhase"
              /\ file' = file
         ELSE /\ ret'.out.ok
              /\ load_control(file') =
                     Ok([active |-> TRUE, phase |-> call'.phase,
                         interval_seconds |-> AskedInterval(call'.interval),
                         overrides |-> EmptyDict])]_vars

\* C9, amended: a start whose phase, trimmed and lower-cased, is not one of
\* the two enumeration values fails with InvalidPhase and persists nothing;
\* any other start returns and persists (active, the trimmed lower-cased
\* phase, the interval clamped to [2, 600] or 15 when omitted, no overrides),
\* whatever the file held before.
C9_StartNormalizedPhase ==
    [][IsStartStep =>
         LET phase == Lower(Strip(call'.phase))
             control == [active |-> TRUE, phase |-> phase,
                         interval_seconds |-> AskedInterval(call'.interval),
                         overrides |-> EmptyDict]
         IN  IF phase \notin {PhaseName("phase1"), PhaseName("phase2")}
             THEN /\ ~ret'.out.ok
                  /\ ret'.out.error = "InvalidPhase"
                  /\ file' = file
             ELSE /\ ret'.out.ok
                  /\ ret'.out.control = control
                  /\ load_control(file') = Ok(control)]_vars

\* a start in upper case with white space around and an interval above the
\* maximum has succeeded, clamped to 600
C9_Witness ==
    /\ call.op = "start"
    /\ call.phase = Word("phase2", "upper", TRUE)
    /\ call.interval = JNum(PyInt(601))
    /\ ret.out.ok
    /\ ret.out.control.phase = PhaseName("phase2")
    /\ ret.out.control.interval_seconds = 600

\* C10: a stop returns (previous, current): previous is the control persisted
\* before the call, current is (inactive, previous.phase, previous.interval,
\* no overrides) and is persisted; a second stop changes nothing more.
C10_StopReturnsPair ==
    [][IsStopStep =>
         LET previous == load_control(file)
         IN  /\ previous.ok
             /\ ret'.out.ok
             /\ ret'.out.previous = previous.v
             /\ ret'.out.current =
                    [active |-> FALSE, phase |-> previous.v.phase,
                     interval_seconds |-> previous.v.interval_seconds,
                     overrides |-> EmptyDict]
             /\ load_control(file') = Ok(ret'.out.current)
             /\ stop_calibration(file').file = file']_vars

\* C10 where the control file can be loaded: the stop behaves as C10 says.
C10_StopWhenLoadable ==
    [][IsStopStep /\ load_control(file).ok =>
         LET previous == load_control(file)
         IN  /\ ret'.out.ok
             /\ ret'.out.previous = previous.v
             /\ ret'.out.current =
                    [active |-> FALSE, phase |-> previous.v.phase,
                     interval_seconds |-> previous.v.interval_seconds,
                     overrides |-> EmptyDict]
             /\ load_control(file') = Ok(ret'.out.current)
             /\ stop_calibration(file').file = file'
             /\ stop_calibration(file').current = ret'.out.current]_vars

\* a stop has raised what load_control raised
C10_StopRaised == call.op = "stop" /\ ~ret.out.ok

\* a stop of an active session with overrides has returned its pair
C10_StopCleared ==
    /\ call.op = "stop"
    /\ ret.out.ok
    /\ ret.out.previous.active
    /\ ret.out.previous.overrides # EmptyDict
    /\ ~ret.out.current.active

----------------------------------------------------------------------------
(* Properties of setOverride, of the interval and of the round trip *)

IsSetOverrideStep == call'.op = "set_override"

\* the persisted state says inactive: no file, or a document whose active
\* field is false
PersistedInactive(f) ==
    \/ f = NoControlFile
    \/ f.kind = "json" /\ f.doc.j = "object" /\ f.doc.active = JBool(FALSE)

\* the persisted state says active, in the phase named
PersistedActive(f, phase) ==
    /\ f.kind = "json"
    /\ f.doc.j = "object"
    /\ f.doc.active = JBool(TRUE)
    /\ f.doc.phase = JStr(PhaseName(phase))

\* the four parameters of each phase and their types
AllowedParameters ==
    [ phase1 |-> { "PRIMARY_CRY_THRESHOLD", "CONFIRM_N", "CONFIRM_M",
                   "ALERT_COOLDOWN_SECONDS" },
      phase2 |-> { "CRY_THRESHOLD", "CAT_THRESHOLD", "CAT_WEIGHT",
                   "MARGIN_THRESHOLD" } ]

IntegerParameters == { "CONFIRM_N", "CONFIRM_M", "ALERT_COOLDOWN_SECONDS" }

\* the trimmed, upper-cased name is one of the four parameters of the phase
IsAllowed(parameter, phase) ==
    \E name \in AllowedParameters[phase] :
        Upper(Strip(parameter)) = Word(name, "upper", FALSE)

\* the raw text is a value of the parameter's type
ParsesFor(raw, name) ==
    IF name \in IntegerParameters
    THEN IntOfText(raw).ok /\ IntOfText(raw).v >= 0
    ELSE FloatOfText(raw).ok

\* a value has the type of the parameter
HasTypeOf(value, name) ==
    IF name \in IntegerParameters
    THEN value.k = "int" /\ value.n >= 0
    ELSE value.k \in {"float", "nan", "inf"}

\* C11: setOverride on a control whose persisted state is inactive fails
\* with CalibrationInactive, whatever the parameter and the value, and leaves
\* the persisted control unchanged.
C11_InactiveRejected ==
    [][IsSetOverrideStep /\ PersistedInactive(file) =>
         /\ ~ret'.out.ok
         /\ ret'.out.error = "CalibrationInactive"
         /\ file' = file]_vars

\* C11 where load_control returns: an inactive control rejects every override.
C11_InactiveWhenLoadable ==
    [][/\ IsSetOverrideStep
       /\ load_control(file).ok
       /\ ~load_control(file).v.active
       => /\ ~ret'.out.ok
          /\ ret'.out.error = "CalibrationInactive"
          /\ file' = file]_vars

\* C12: setOverride on an active control fails with UnknownParameter when
\* the trimmed, upper-cased name is not a parameter of the active phase, and
\* leaves the persisted control unchanged.
C12_UnknownRejected ==
    [][\A phase \in {"phase1", "phase2"} :
         /\ IsSetOverrideStep
         /\ PersistedActive(file, phase)
         /\ ~IsAllowed(call'.parameter, phase)
         => /\ ~ret'.out.ok
            /\ ret'.out.error = "UnknownParameter"
            /\ file' = file]_vars

\* C12 where load_control returns.
C12_UnknownWhenLoadable ==
    [][/\ IsSetOverrideStep
       /\ load_control(file).ok
       /\ load_control(file).v.active
       /\ ~IsAllowed(call'.parameter, load_control(file).v.phase.core)
       => /\ ~ret'.out.ok
          /\ ret'.out.error = "UnknownParameter"
          /\ file' = file]_vars

\* C13: setOverride on an active control with an allowed parameter fails
\* with InvalidValue when the raw text is no value of the parameter's type
\* (or is a negative integer), and leaves the persisted control unchanged.
C13_InvalidRejected ==
    [][\A phase \in {"phase1", "phase2"} :
         /\ IsSetOverrideStep
         /\ PersistedActive(file, phase)
         /\ IsAllowed(call'.parameter, phase)
         /\ ~ParsesFor(call'.raw_value, call'.parameter.core)
         => /\ ~ret'.out.ok
            /\ ret'.out.error = "InvalidValue"
            /\ file' = file]_vars

\* C13 where load_control returns.
C13_InvalidWhenLoadable ==
    [][/\ IsSetOverrideStep
       /\ load_control(file).ok
       /\ load_control(file).v.active
       /\ IsAllowed(call'.parameter, load_control(file).v.phase.core)
       /\ ~ParsesFor(call'.raw_value, call'.parameter.core)
       => /\ ~ret'.out.ok
          /\ ret'.out.error = "InvalidValue"
          /\ file' = file]_vars

\* the three rejections have happened on a loadable control
C11_Rejected ==
    call.op = "set_override" /\ ~ret.out.ok /\ ret.out.error = "CalibrationInactive"
C12_Rejected ==
    /\ call.op = "set_override"
    /\ call.parameter = KeyName("CONFIRM_N")
    /\ load_control(file).ok
    /\ load_control(file).v.phase = PhaseName("phase2")
    /\ ~ret.out.ok
    /\ ret.out.error = "UnknownParameter"
C13_Rejected ==
    /\ call.op = "set_override"
    /\ call.parameter = KeyName("CONFIRM_N")
    /\ call.raw_value = Numeral(-10, FALSE, FALSE)
    /\ ~ret.out.ok
    /\ ret.out.error = "InvalidValue"

\* C14: after a successful setOverride, load shows the parsed value under
\* the normalised key; active, phase, interval and every other override are
\* as load showed them before the call.
C14_OverrideStored ==
    [][IsSetOverrideStep /\ ret'.out.ok =>
         LET before == load_control(file)
             after == load_control(file')
             key == Upper(Strip(call'.parameter)).core
         IN  /\ before.ok /\ after.ok
             /\ ParsesFor(call'.raw_value, key)
             /\ after.v.overrides[key] = ret'.out.value
             /\ HasTypeOf(ret'.out.value, key)
             /\ after.v.active = before.v.active
             /\ after.v.phase = before.v.phase
             /\ after.v.interval_seconds = before.v.interval_seconds
             /\ DOMAIN after.v.overrides = DOMAIN before.v.overrides \cup {key}
             /\ \A other \in DOMAIN before.v.overrides \ {key} :
                    after.v.overrides[other] = before.v.overrides[other]]_vars

\* "1.4" has been stored for " cat_weight " beside nothing else, and in
\* phase1 a second override stands beside the first
C14_Witness ==
    /\ call.op = "set_override"
    /\ ret.out.ok
    /\ call.parameter = KeyName("CONFIRM_N")
    /\ call.raw_value = Numeral(30, FALSE, TRUE)
    /\ load_control(file).v.overrides["CONFIRM_N"] = PyInt(3)
    /\ "PRIMARY_CRY_THRESHOLD" \in DOMAIN load_control(file).v.overrides
    /\ load_control(file).v.overrides["PRIMARY_CRY_THRESHOLD"] = PyFloat(14)

\* the overrides of a control are parameters of its phase, with their types
WellTyped(control) ==
    \A key \in DOMAIN control.overrides :
        /\ key \in AllowedParameters[control.phase.core]
        /\ HasTypeOf(control.overrides[key], key)

\* C15: whatever the operations called, every key of the overrides of the
\* control (the one load returns and the one an operation returned) is a
\* parameter of the control's phase and its value has that parameter's type.
C15_OverridesOfPhase ==
    /\ load_control(file).ok => WellTyped(load_control(file).v)
    /\ call.op \in {"start", "set_override", "set_interval"} /\ ret.out.ok
           => WellTyped(ret.out.control)
    /\ call.op = "stop" /\ ret.out.ok
           => WellTyped(ret.out.previous) /\ WellTyped(ret.out.current)

\* an integer and a floating-point override of phase1 are both set
C15_Witness ==
    /\ call.op = "set_override"
    /\ ret.out.ok
    /\ ret.out.control.phase = PhaseName("phase1")
    /\ DOMAIN ret.out.control.overrides = {"CONFIRM_N", "PRIMARY_CRY_THRESHOLD"}
    /\ ret.out.control.overrides["PRIMARY_CRY_THRESHOLD"].k = "nan"

\* C16: whatever the operations called and whatever the file holds, the
\* interval of the control load returns lies in [2, 600].
C16_IntervalInRange ==
    /\ load_control(file).ok =>
           load_control(file).v.interval_seconds \in 2..600
    /\ call.op \in {"start", "set_override", "set_interval"} /\ ret.out.ok
           => ret.out.control.interval_seconds \in 2..600

\* an interval above the maximum was set and is read back as 600
C16_Witness ==
    /\ call.op = "set_interval"
    /\ call.interval = JNum(PyInt(601))
    /\ ret.out.ok
    /\ load_control(file) = Ok(ret.out.control)
    /\ ret.out.control.interval_seconds = 600

\* C18: for every control file load can read, saving the loaded control and
\* loading again returns the control loaded first.
C18_SaveLoadRoundTrip ==
    load_control(file).ok =>
        load_control(save_control(load_control(file).v)) = load_control(file)

\* a file not written by save_control (phase in upper case, parameter name in
\* lower case with white space, value as text) is read with an override
C18_Witness ==
    /\ file.kind = "json"
    /\ file.doc.j = "object"
    /\ file.doc.phase = JStr(Word("phase2", "upper", TRUE))
    /\ load_control(file).ok
    /\ load_control(file).v.overrides = DictSet(EmptyDict, "CAT_WEIGHT", PyFloat(14))
    /\ save_control(load_control(file).v) # file

----------------------------------------------------------------------------
(* Properties of the stop summary *)

\* the text of a whole number of seconds, and of a parameter value
SecondsText(n) == Numeral(10 * n, FALSE, FALSE)

HasLine(summary, line) == \E i \in 1..Len(summary) : summary[i] = line

\* C17: the summary of a stopped (active) session holds the line
\* "/cal_start <phase> <interval>" and one line "/cal_set <KEY> <value>" for
\* every override; sending its lines in order, to the stopped store or to an
\* empty one, gives a control equal to the stopped session's.
C17_SummaryReplays ==
    [][IsStopStep /\ ret'.out.ok /\ ret'.out.previous.active =>
         LET previous == ret'.out.previous
             summary == build_stop_summary(previous)
         IN  /\ HasLine(summary,
                        CommandLine("/cal_start", previous.phase,
                                    SecondsText(previous.interval_seconds)))
             /\ \A key \in DOMAIN previous.overrides :
                    HasLine(summary,
                            CommandLine("/cal_set", Word(key, "upper", FALSE),
                                        StrOfNum(previous.overrides[key])))
             /\ load_control(Replay(file', summary)) = Ok(previous)
             /\ load_control(Replay(NoControlFile, summary)) = Ok(previous)]_vars

\* a session with an integer and a floating-point override was stopped
C17_Witness ==
    /\ call.op = "stop"
    /\ ret.out.ok
    /\ ret.out.previous.active
    /\ ret.out.previous.interval_seconds = 25
    /\ ret.out.previous.overrides =
           DictSet(DictSet(EmptyDict, "CONFIRM_N", PyInt(3)),
                   "PRIMARY_CRY_THRESHOLD", PyFloat(14))

----------------------------------------------------------------------------
(* Properties of the update loop *)

\* C19: the offset of the update loop never decreases, whatever ids the
\* responses hold, in whatever order.
C19_OffsetMonotone == [][poller'.offset >= poller.offset]_vars

\* an update whose id lies below the offset was worked on, after one with a
\* higher id in the same response
C19_Witness ==
    /\ call.op = "update"
    /\ ret.dispatched
    /\ poller.next > 2
    /\ call.update_id.j = "num"
    /\ call.update_id.num.n + 1 < poller.offset
    /\ poller.response[1].j = "num"
    /\ poller.response[1].num.n > call.update_id.num.n

\* the work on the response has ended
BatchDone == poller.response # <<>> /\ poller.next > Len(poller.response)

\* C20: once a response has been worked through the offset exceeds its
\* highest update id, and, also when a handler raised in the middle of it, no
\* update with an id below the offset is left that was never passed to
\* _handle_update.
C20_AtLeastOnce ==
    BatchDone =>
        /\ ~poller.aborted =>
               \A id \in IntegerIds(poller.response) : id < poller.offset
        /\ \A id \in poller.received :
               id < poller.offset => id \in poller.handled

\* C20 for responses as the Bot API sends them (increasing ids from the offset
\* on): no update below the offset is left undispatched.
C20_AtLeastOnceInOrder ==
    BatchDone /\ poller.in_order =>
        /\ ~poller.aborted =>
               \A id \in IntegerIds(poller.response) : id < poller.offset
        /\ \A id \in poller.received :
               id < poller.offset => id \in poller.handled

\* a handler raised in the middle of a response in order
C20_RaisedInOrder ==
    /\ poller.in_order
    /\ poller.aborted
    /\ Len(poller.response) = 2
    /\ call.op = "update"
    /\ ret.dispatched
    /\ call.update_id = poller.response[1]

----------------------------------------------------------------------------
(* Properties of the poller threads *)

\* C21: a failed poll, or an error raised while a response is handled, does
\* not end the update loop: the error is logged, the loop backs off and stands
\* at its test again; the loop stops running only after the stop event is set.
C21_LoopSurvivesErrors ==
    [][/\ poller.update = "running" /\ poller'.update # "running"
            => poller.stop
       /\ call'.op \in {"getUpdates", "update"} /\ ret'.raised
            => /\ poller'.update = "running"
               /\ poller'.aborted
               /\ poller'.next > Len(poller'.response)]_vars

\* a poll has failed after updates were handled, and the loop still runs
C21_Witness ==
    /\ call.op = "getUpdates"
    /\ ret.raised
    /\ poller.offset > 0
    /\ poller.aborted
    /\ poller.update = "running"
    /\ ~poller.stop

----------------------------------------------------------------------------
(* Properties of the watch loop *)

IsWatchTickStep == call'.op = "watch_tick" /\ clock' = clock

\* the chats of a registry
WatchedChats(watchers) == { watchers[i].chat_id : i \in 1..Len(watchers) }

\* the entries of a registry
WatchEntries(watchers) == { watchers[i] : i \in 1..Len(watchers) }

\* what the tick of a step does to one entry of the registry, given what the
\* status callback reports
TickServes(w, now, outcome) ==
    IF now >= w.next_at
    THEN /\ w.chat_id \in ret'.served
         /\ outcome.ok /\ outcome.v.ok =>
                Watcher(w.chat_id, w.interval, now + w.interval)
                    \in WatchEntries(poller'.watchers)
         /\ outcome.ok /\ ~outcome.v.ok =>
                w.chat_id \notin WatchedChats(poller'.watchers)
    ELSE /\ w.chat_id \notin ret'.served
         /\ w \in WatchEntries(poller'.watchers)

\* C22: on every tick of the watch loop every client whose fire time has
\* elapsed is sent the result of the status callback; its next fire time
\* becomes now + interval when the callback reports success and its watch is
\* removed when the callback reports failure; a client whose fire time has
\* not elapsed receives nothing
C22_TickServesDue ==
    [][IsWatchTickStep =>
         \A w \in WatchEntries(poller.watchers) :
             TickServes(w, call'.now, format_calibration_status(file, status))]_vars

\* C22 holds on the ticks in which the status callback returns
C22_TickServesDueWhenReturned ==
    [][IsWatchTickStep /\ ~ret'.raised =>
         \A w \in WatchEntries(poller.watchers) :
             TickServes(w, call'.now, format_calibration_status(file, status))]_vars

\* a tick served a due client and rescheduled it
C22_Rescheduled ==
    /\ call.op = "watch_tick" /\ ret.served # {}
    /\ \E w \in WatchEntries(poller.watchers) :
          w.chat_id \in ret.served /\ w.next_at = call.now + w.interval

\* C23: nothing but the stop signal ends the watch loop: a status callback
\* that raises does not end it
C23_OnlyStopEndsWatch ==
    [][poller.watch = "running" /\ poller'.watch # "running" => poller.stop]_vars

\* the watch loop is ended by the stop signal unless the status callback
\* raised in a tick
C23_EndsByStopOrRaise ==
    [][poller.watch = "running" /\ poller'.watch # "running" =>
         \/ poller.stop
         \/ IsWatchTickStep /\ ret'.raised]_vars

\* the watch loop ended on a status whose baby_score is no number, with a
\* client left in the registry and no stop signal
C23_Crashed ==
    /\ poller.watch = "crashed" /\ ~poller.stop
    /\ poller.watchers # <<>>
    /\ load_control(file).ok
    /\ ~format_calibration_status(file, status).ok

----------------------------------------------------------------------------
(* Properties of the life cycle of the poller *)

\* C26: starting the poller is idempotent: whatever the sequence or the
\* interleaving of start calls, at most one update loop and at most one
\* watch loop are ever created
C26_AtMostOneLoop == poller.update_loops <= 1 /\ poller.watch_loops <= 1

\* a start begun on an instance that has its threads returns at once and
\* changes nothing
C26_StartOnStartedIsNoOp ==
    [][call'.op = "start_poller" /\ poller.has_thread
          /\ call'.caller \notin poller.starting
            => poller' = poller /\ ~ret'.created]_vars

\* two callers both passed the test of start() and each created its loops
C26_TwoLoops ==
    /\ poller.update_loops = 2 /\ poller.watch_loops = 2
    /\ poller.starting = {}

\* C27: once stop() has set the stop signal both the update loop and the
\* watch loop eventually exit, and no poll and no watch tick is begun while
\* the signal is set
C27_StopEndsBothLoops ==
    /\ poller.stop ~> poller.update # "running"
    /\ poller.stop ~> poller.watch # "running"
    /\ [][poller.stop => call'.op \notin {"getUpdates", "watch_tick"}]_vars

\* both loops ran, the signal came in the middle of a response, and both
\* loops exited on it
C27_Witness ==
    /\ poller.stop
    /\ poller.update = "exited" /\ poller.watch = "exited"
    /\ poller.handled # {}
    /\ call.op = "watch_loop_exit"

----------------------------------------------------------------------------
(* Properties of the processing loop *)

IsCycleStep == call'.op = "cycle"

IsCommandStep == call'.op \in {"command", "command_end"}

\* C24: a failure of the notification transport during an alert (the text
\* send, the clip send or the retry of the clip send) is never fatal to the
\* processing loop
C24_TransportNeverFatal ==
    [][IsCycleStep /\ ret'.alert \in {"text_fails", "retried", "retry_fails"}
          => monitor'.alive]_vars

\* a clip send that fails once and goes through on the retry is survived
C24_RetriedClipSurvives ==
    [][IsCycleStep /\ ret'.alert = "retried" /\ ret'.verifier # "raised"
          => monitor'.alive]_vars

\* the loop ended on a text send that failed
C24_Crashed ==
    /\ call.op = "cycle" /\ ~monitor.alive
    /\ ret.alert = "text_fails" /\ ret.verifier = "passed"

\* C25: when the second-stage scorer or the external validator raises in a
\* cycle, the stage is skipped, no alert is emitted in that cycle and the
\* loop goes on
C25_StageFailureDegrades ==
    [][IsCycleStep /\ (ret'.verifier = "raised" \/ ret'.ollama = "raised")
          => monitor'.alive /\ ret'.alert = "none"]_vars

\* a validator that raises is survived, unless the alert sent without it
\* fails
C25_ValidatorFailureSurvives ==
    [][IsCycleStep /\ ret'.ollama = "raised"
          /\ ret'.alert \in {"none", "sent", "retried"}
          => monitor'.alive]_vars

\* an alert went out in a cycle whose validator raised
C25_AlertWithoutValidator ==
    call.op = "cycle" /\ ret.ollama = "raised" /\ ret.alert = "sent"

\* the loop ended on a second-stage scorer that raised
C25_Crashed ==
    call.op = "cycle" /\ ret.verifier = "raised" /\ ~monitor.alive

\* C28: the processing loop never writes the persisted control and the
\* command handlers never write the persisted status
C28_ReadWriteSplit ==
    [][/\ IsCycleStep => file' = file
       /\ IsCommandStep => status' = status]_vars

\* a cycle read the control of a session and wrote the status, and a command
\* then wrote the control
C28_Witness ==
    /\ call.op = "command_end"
    /\ status.kind = "json"
    /\ file.kind = "json" /\ load_control(file).v.active
    /\ monitor.status_next_at > 0

\* the value of a float parameter the control prescribes, in tenths
InForceFloat(control, phase, key, default) ==
    IF control.active /\ control.phase = PhaseName(phase)
          /\ key \in DOMAIN control.overrides
    THEN FloatTenths(control.overrides[key]) ELSE default

\* the value of an integer parameter the control prescribes
InForceInt(control, phase, key, default) ==
    IF control.active /\ control.phase = PhaseName(phase)
          /\ key \in DOMAIN control.overrides
    THEN IntValue(control.overrides[key]) ELSE default

\* the thresholds of the second stage in force in the cycle of a step are
\* the overrides of the control it read, the configured ones otherwise
SecondStageInForce ==
    /\ ret'.thresholds.baby_threshold =
           InForceFloat(ret'.control, "phase2", "CRY_THRESHOLD",
                        Config.baby_threshold)
    /\ ret'.thresholds.cat_threshold =
           InForceFloat(ret'.control, "phase2", "CAT_THRESHOLD",
                        Config.cat_suppress_threshold)
    /\ ret'.thresholds.cat_weight =
           InForceFloat(ret'.control, "phase2", "CAT_WEIGHT",
                        Config.cat_weight)
    /\ ret'.thresholds.margin_threshold =
           InForceFloat(ret'.control, "phase2", "MARGIN_THRESHOLD",
                        Config.margin_threshold)

\* C29 as stated: in every cycle the gate parameters and the second-stage
\* thresholds in force equal the overrides of the control read at the start
\* of the cycle for the active phase, and the configured defaults otherwise
C29_ParametersEqualControl ==
    [][IsCycleStep =>
         /\ gate'.primary_threshold =
                InForceFloat(ret'.control, "phase1", "PRIMARY_CRY_THRESHOLD",
                             Config.primary_cry_threshold)
         /\ gate'.confirm_n =
                InForceInt(ret'.control, "phase1", "CONFIRM_N",
                           Config.confirm_n)
         /\ gate'.confirm_m =
                InForceInt(ret'.control, "phase1", "CONFIRM_M",
                           Config.confirm_m)
         /\ gate'.cooldown_seconds =
                InForceInt(ret'.control, "phase1", "ALERT_COOLDOWN_SECONDS",
                           Config.alert_cooldown_seconds)
         /\ SecondStageInForce]_vars

\* C29: in every cycle the gate parameters and the second-stage thresholds in
\* force are those of the control read at the start of the cycle (overrides
\* of the active phase, configured defaults otherwise), the gate's ones
\* after its clamping: confirm_n and confirm_m at least 1, the cooldown at
\* least 0
C29_ParametersFollowControl ==
    [][IsCycleStep =>
         /\ gate'.primary_threshold =
                InForceFloat(ret'.control, "phase1", "PRIMARY_CRY_THRESHOLD",
                             Config.primary_cry_threshold)
         /\ gate'.confirm_n =
                Max(1, InForceInt(ret'.control, "phase1", "CONFIRM_N",
                                  Config.confirm_n))
         /\ gate'.confirm_m =
                Max(1, InForceInt(ret'.control, "phase1", "CONFIRM_M",
                                  Config.confirm_m))
         /\ gate'.cooldown_seconds =
                Max(0, InForceInt(ret'.control, "phase1",
                                  "ALERT_COOLDOWN_SECONDS",
                                  Config.alert_cooldown_seconds))
         /\ SecondStageInForce]_vars

\* a cycle read a control whose override of CONFIRM_N is 0 and the gate
\* confirms on one window
C29_Witness ==
    /\ call.op = "cycle" /\ monitor.alive
    /\ ret.control.active /\ ret.control.phase = PhaseName("phase1")
    /\ "CONFIRM_N" \in DOMAIN ret.control.overrides
    /\ ret.control.overrides["CONFIRM_N"] = PyInt(0)
    /\ gate.confirm_n = 1
    /\ ret.ready

\* a cycle read a control whose override of CRY_THRESHOLD is 2.0 and the
\* second stage blocked on it
C29_OverrideInForce ==
    /\ call.op = "cycle"
    /\ ret.control.active /\ ret.control.phase = PhaseName("phase2")
    /\ ret.thresholds.baby_threshold = 20
    /\ ret.verifier = "blocked"

\* C30: a load by the processing loop that interleaves with a command
\* writing the control returns the control persisted before the command or
\* the one persisted by it
C30_LoadSeesBeforeOrAfter ==
    [][IsCycleStep /\ ~IsNone(poller.writing) =>
         \/ ret'.control = load_control(Val(poller.writing).before).v
         \/ ret'.control = load_control(Val(poller.writing).content).v]_vars

\* a load that interleaves with a write returns the control before it, the
\* control after it or the defaults
C30_BeforeAfterOrDefaults ==
    [][IsCycleStep /\ ~IsNone(poller.writing) =>
         \/ ret'.control = load_control(Val(poller.writing).before).v
         \/ ret'.control = load_control(Val(poller.writing).content).v
         \/ ret'.control = default_control]_vars

\* a cycle read the defaults, inactive, while an override was being written
\* in an active session
C30_TornRead ==
    /\ call.op = "cycle" /\ ~IsNone(poller.writing)
    /\ ~ret.control.active
    /\ load_control(Val(poller.writing).before).v.active
    /\ load_control(Val(poller.writing).content).v.active

----------------------------------------------------------------------------
(* Further properties of the Gating Engine *)

\* C35 as stated: whenever evaluate returns ready_for_alert = true, the
\* window evaluated in that call is itself a candidate
C35_ReadyIsCandidate ==
    [][IsEvaluateStep /\ ret'.ready_for_alert => ret'.candidate]_vars

\* C35: whenever evaluate returns ready_for_alert = true, the decision is
\* confirmed and not suppressed, at least confirm_n entries of the window
\* after the push qualify, and the window evaluated is itself a candidate
\* when confirm_n >= confirm_m >= 1
C35_ReadyIsConfirmed ==
    [][IsEvaluateStep /\ ret'.ready_for_alert =>
         /\ ret'.confirmed /\ ~ret'.suppressed_by_cat
         /\ CountTrue(gate'.history) >= gate.confirm_n
         /\ gate.confirm_n >= gate.confirm_m /\ gate.confirm_m >= 1
              => ret'.candidate]_vars

\* 1-of-2: the window before qualified, the window evaluated is no candidate
\* and the decision is ready
C35_Witness ==
    /\ call.op = "evaluate"
    /\ gate.confirm_n = 1 /\ gate.confirm_m = 2
    /\ gate.history = <<TRUE, FALSE>>
    /\ ret.ready_for_alert /\ ~ret.candidate

\* C36: for all scores, the value evaluate pushes into the window (candidate
\* and not suppressed) equals primary_score >= primary_threshold and
\* passes(result) under the gate's own thresholds
C36_GateAgreesWithPolicy ==
    \A p \in Scores, b \in Scores, c \in Scores :
        LET r == evaluate(gate, p, b, c, clock)
            pushed == r.decision.candidate /\ ~r.decision.suppressed_by_cat
            agreed ==
                /\ p >= gate.primary_threshold
                /\ passes_verifier_with_thresholds(
                       [primary_score |-> p, baby_score |-> b, cat_score |-> c],
                       gate.baby_threshold, gate.cat_weight,
                       gate.margin_threshold, gate.cat_suppress_threshold)
        IN  /\ pushed = agreed
            /\ gate.history_maxlen >= 1 =>
                   r.gate.history[Len(r.gate.history)] = agreed

\* a candidate that confusable dominance suppressed was pushed as FALSE
C36_Witness ==
    /\ call.op = "evaluate"
    /\ ret.candidate /\ ret.suppressed_by_cat
    /\ gate.history # <<>> /\ ~gate.history[Len(gate.history)]

\* C39: in every state where confirm_n > confirm_m every evaluate returns
\* confirmed = false and ready_for_alert = false, whatever the scores and
\* the history
C39_NeverConfirms ==
    gate.confirm_n > gate.confirm_m =>
        \A p \in Scores, b \in Scores, c \in Scores :
            LET d == evaluate(gate, p, b, c, clock).decision
            IN  ~d.confirmed /\ ~d.ready_for_alert

\* confirm_m was lowered below confirm_n on a window of qualifying entries,
\* and a qualifying window evaluated after it is not confirmed
C39_Witness ==
    /\ call.op = "evaluate"
    /\ gate.confirm_n = 2 /\ gate.confirm_m = 1
    /\ gate.history = <<TRUE>>
    /\ ret.candidate /\ ~ret.suppressed_by_cat
    /\ ~ret.confirmed /\ ~ret.ready_for_alert

----------------------------------------------------------------------------
(* Properties of the notification transport *)

\* the positions of the sends of one kind to one recipient, up to position n
SendsTo(kind, to, n) ==
    { i \in 1..n : notifier.sends[i].kind = kind /\ notifier.sends[i].to = to }

C31_LateRecipient ==
    \E j \in 1..Len(notifier.sends) :
        /\ notifier.sends[j].kind = "clip"
        /\ notifier.sends[j].to \notin notifier.texted

IsRegisterStep == call'.op = "register"

\* C32: a registration with accept-new-users false returns false, replies
\* that registration is closed and leaves the store unchanged; with
\* accept-new-users true the client id is in the store written, and the store
\* written equals the store before when the id was in it already.
C32_RegistrationFollowsPolicy ==
    [][IsRegisterStep =>
         IF ~call'.accept_new_users
         THEN /\ ~ret'.returned /\ ret'.reply = "closed"
              /\ recipients' = recipients /\ IsNone(poller'.writing)
         ELSE /\ ret'.returned /\ ret'.reply = "successful"
              /\ ~IsNone(poller'.writing)
              /\ Strip(call'.chat_id) \in Val(poller'.writing).content.ids
              /\ (Strip(call'.chat_id) \in list_chat_ids(recipients).v
                    => list_chat_ids(Val(poller'.writing).content)
                         = list_chat_ids(recipients))]_vars

\* the same for every client id that is not blank; a blank id is accepted and
\* not stored
C32_NonBlankRegistrationFollowsPolicy ==
    [][IsRegisterStep =>
         IF ~call'.accept_new_users
         THEN /\ ~ret'.returned /\ ret'.reply = "closed"
              /\ recipients' = recipients /\ IsNone(poller'.writing)
         ELSE /\ ret'.returned /\ ret'.reply = "successful"
              /\ IF Strip(call'.chat_id).core = ""
                 THEN recipients' = recipients /\ IsNone(poller'.writing)
                 ELSE /\ ~IsNone(poller'.writing)
                      /\ Strip(call'.chat_id)
                           \in Val(poller'.writing).content.ids
                      /\ (Strip(call'.chat_id) \in list_chat_ids(recipients).v
                            => list_chat_ids(Val(poller'.writing).content)
                                 = list_chat_ids(recipients))]_vars

\* the store written is the store in the end
C32_StoreIsWritten ==
    [][call'.op = "register_end" =>
         recipients' = Val(poller.writing).content]_vars

\* a blank client id was accepted with nothing in the store
C32_BlankAccepted ==
    /\ call.op = "register" /\ call.accept_new_users
    /\ Strip(call.chat_id).core = ""
    /\ ret.returned /\ list_chat_ids(recipients).v = {}

----------------------------------------------------------------------------
(* Properties of the watch registry under interleaving *)

IsServeStep == call'.op = "watch_serve"

\* C33: under every interleaving of the two loops the watch loop pushes a
\* status only to a client whose watch is in the registry (after
\* /cal_watch_stop or a successful /cal_stop removed it, none until the
\* client's next /cal_watch), and a step of the watch loop removes from the
\* registry no entry but the one it was acting on.
C33_RegistrySharedSafely ==
    [][IsServeStep =>
         /\ ~IsNone(ret'.pushed) =>
                Val(ret'.pushed) \in WatchedChats(poller.watchers)
         /\ \A w \in WatchEntries(poller.watchers) :
                w.chat_id \notin WatchedChats(poller'.watchers)
                    => w.id = call'.watch.id]_vars

\* the watch loop pushes and removes by chat id within the copy it took: the
\* chat pushed to is the chat of the entry served, and no other chat's entry
\* is removed
C33_ServesItsCopy ==
    [][IsServeStep =>
         /\ ~IsNone(ret'.pushed) => Val(ret'.pushed) = call'.watch.chat_id
         /\ \A w \in WatchEntries(poller.watchers) :
                w.chat_id \notin WatchedChats(poller'.watchers)
                    => w.chat_id = call'.watch.chat_id]_vars

\* the first half alone: no push to a client whose watch was removed
C33_NoPushAfterStop ==
    [][IsServeStep /\ ~IsNone(ret'.pushed) =>
         Val(ret'.pushed) \in WatchedChats(poller.watchers)]_vars

\* the second half alone: no newer registration removed with an older watch
C33_NewerWatchKept ==
    [][IsServeStep =>
         \A w \in WatchEntries(poller.watchers) :
             w.chat_id \notin WatchedChats(poller'.watchers)
                 => w.id = call'.watch.id]_vars

----------------------------------------------------------------------------
(* Further properties of the processing loop *)

\* the second stage ran in the cycle and its scores pass the Decision Policy
\* with the thresholds of the cycle
SecondStagePassed(r) ==
    /\ ~IsNone(r.scored)
    /\ passes_verifier_with_thresholds(Val(r.scored),
           r.thresholds.baby_threshold, WeightOf(r.thresholds.cat_weight),
           r.thresholds.margin_threshold, r.thresholds.cat_threshold)

\* C34: in every cycle send_alert is called if and only if the gate returned
\* ready_for_alert, the scores of the second stage pass the Decision Policy
\* with the phase-2 thresholds of the cycle, the validator did not return a
\* block decision and the control read in the cycle is inactive; the second
\* stage and the validator are invoked only when the gate returned
\* ready_for_alert.
C34_AlertIffAllStagesPass ==
    [][IsCycleStep /\ "alert" \in DOMAIN ret' =>
         /\ ret'.alert # "none" <=>
                /\ ret'.ready
                /\ SecondStagePassed(ret')
                /\ ret'.ollama # "block"
                /\ ~ret'.control.active
         /\ ret'.verifier # "skipped" => ret'.ready
         /\ ret'.ollama # "skipped" => ret'.ready
         /\ ~IsNone(ret'.scored) => ret'.ready]_vars

\* an alert was sent after the second stage passed and the validator allowed
\* it, outside calibration
C34_Witness ==
    /\ call.op = "cycle" /\ ret.alert = "sent"
    /\ ret.ready /\ ret.verifier = "passed" /\ ret.ollama = "allow"
    /\ ~ret.control.active

\* the validator blocked an alert the second stage had passed
C34_Blocked ==
    /\ call.op = "cycle" /\ ret.alert = "none"
    /\ ret.ready /\ ret.verifier = "passed" /\ ret.ollama = "block"
    /\ ~ret.control.active

\* the value of a boolean or text field of the status written
StatusField(key) == read_status(status)[key]

\* C37: in every status snapshot would_alert=true implies the block reason is
\* none or calibration, and a block reason other than none implies
\* gate_ready=true.
C37_StatusConsistent ==
    status.kind = "json" =>
        /\ StatusField("would_alert").b =>
               StatusField("alert_blocked_by").text.core
                   \in {"none", "calibration"}
        /\ StatusField("alert_blocked_by").text.core # "none" =>
               StatusField("gate_ready").b

\* would_alert=true is written with the block reason none, calibration or
\* ollama, never verifier; a block reason other than none implies
\* gate_ready=true
C37_StatusConsistentButValidator ==
    status.kind = "json" =>
        /\ StatusField("would_alert").b =>
               StatusField("alert_blocked_by").text.core
                   \in {"none", "calibration", "ollama"}
        /\ StatusField("alert_blocked_by").text.core # "none" =>
               StatusField("gate_ready").b

\* a snapshot with would_alert=true and an alert the validator blocked
C37_WouldAlertBlocked ==
    /\ status.kind = "json"
    /\ StatusField("would_alert").b
    /\ StatusField("alert_blocked_by").text.core = "ollama"

\* what the status command answers
StatusReport == format_calibration_status(file, status)

\* C38: when a start command has been carried out, the status command reports
\* that it is waiting for live data, whatever an earlier session left in the
\* status file.
C38_StatusOfCurrentSession ==
    [][call'.op = "command_end" /\ Val(poller.writing).cmd.op = "start"
         => LET report == format_calibration_status(file', status')
            IN  report.ok /\ report.v.detail = "waiting_for_live_status"]_vars

\* the first session of a status file is reported as waiting
C38_FirstSessionWaits ==
    [][call'.op = "command_end" /\ Val(poller.writing).cmd.op = "start"
          /\ status.kind # "json"
         => LET report == format_calibration_status(file', status')
            IN  report.ok /\ report.v.detail = "waiting_for_live_status"]_vars

\* a session of phase2 was started and the status command answers with the
\* snapshot a phase1 session wrote
C38_StaleStatus ==
    /\ call.op = "command_end"
    /\ load_control(file).v.active
    /\ load_control(file).v.phase = PhaseName("phase2")
    /\ status.kind = "json"
    /\ StatusField("phase").text = PhaseName("phase1")
    /\ StatusReport.ok /\ StatusReport.v.detail = "live"

============================================================================
